---- MODULE Spec2Model ----
(***************************************************************************)
(* SessionTimeEditor (src/src/utils/session-time-editor.ts): the conflict  *)
(* checker, the suggestion generator and the session time edit store; the  *)
(* plan regeneration button of StudyPlanView.tsx; the redistribution       *)
(* engine as section 4.6 of the specification describes it; and the view   *)
(* with its edit modal (StudyPlanView.tsx, SessionTimeEditModal.tsx).      *)
(* Spec is the editor called directly, SpecView the editor as the view     *)
(* and the modal use it.                                                   *)
(*                                                                         *)
(* Representation.                                                         *)
(*   - An "HH:MM" string is the sequence of its colon-separated numeric    *)
(*     fields: "09:30" is <<9, 30>>, "10" (minutes missing) is <<10>>.     *)
(*   - A number of hours is a fraction <<n, d>> (1/2 hour is <<1, 2>>).    *)
(*   - The template string `${taskId}-${sessionNumber}` is the pair        *)
(*     <<taskId, sessionNumber>>.                                          *)
(*   - A localStorage item is a record: [kind |-> "null"] (no item),       *)
(*     [kind |-> "corrupt"] (text JSON.parse rejects) or                   *)
(*     [kind |-> "json", edits |-> log] (the text JSON.stringify(log)).    *)
(***************************************************************************)
EXTENDS Integers, Sequences, FiniteSets, TLC

VARIABLES
    studyPlans,        \* constructor argument: StudyPlan[]
    fixedCommitments,  \* constructor argument: FixedCommitment[]
    settings,          \* constructor argument: UserSettings
    sessionTimeEdits,  \* the in-memory edit log
    localStorage,      \* the item 'timepilot-session-time-edits'
    now,               \* Date.now()
    quotaExceeded,     \* TRUE when localStorage.setItem throws
    lastCall,          \* the call that has just returned, its arguments and result
    displayedPlans,    \* the studyPlans prop of the view's latest render
    modal              \* the edit modal: selectedSessionForEdit and the modal's state

vars == <<studyPlans, fixedCommitments, settings, sessionTimeEdits,
          localStorage, now, quotaExceeded, lastCall, displayedPlans, modal>>

\* the state of the view outside the editor
view == <<displayedPlans, modal>>

----------------------------------------------------------------------------
(* Bounds *)

MaxNow == 2

----------------------------------------------------------------------------
(* Input universe *)

Wed == "2024-01-10"
Thu == "2024-01-11"
Fri == "2024-01-12"
Sat == "2024-01-13"

Dates == {Wed, Thu, Sat}

OneHour == <<1, 1>>
HalfHour == <<1, 2>>

Durations == {OneHour, HalfHour}

StartTimes ==
    {<<8, 30>>, <<9, 0>>, <<9, 30>>, <<10, 30>>, <<11>>, <<11, 30>>}

SessionKeys == {<<Wed, "T1", 1>>, <<Wed, "T2", 1>>, <<Sat, "T1", 2>>, <<Thu, "T1", 1>>}

ExcludeIds == {<<"T1", 1>>, <<"T1", 2>>}

----------------------------------------------------------------------------
(* Time arithmetic *)

\* JavaScript's % keeps the sign of the dividend.
JsRem(a, b) == IF a >= 0 THEN a % b ELSE 0 - ((0 - a) % b)

timeToMinutes(timeStr) ==
    timeStr[1] * 60 + (IF Len(timeStr) >= 2 THEN timeStr[2] ELSE 0)

minutesToTime(minutes) == <<minutes \div 60, JsRem(minutes, 60)>>

\* sessionDuration * 60
DurationMinutes(sessionDuration) == (sessionDuration[1] * 60) \div sessionDuration[2]

\* new Date(planDate).getDay(): the weekday of the date, 0 for Sunday.
getDay(date) ==
    CASE date = Wed -> 3
      [] date = Thu -> 4
      [] date = Fri -> 5
      [] date = Sat -> 6

----------------------------------------------------------------------------
(* Sequence helpers standing for Array.prototype methods *)

\* Array.prototype.findIndex: first index satisfying Test, 0 when none.
FindIndex(seq, Test(_)) ==
    IF \E i \in 1..Len(seq) : Test(seq[i])
    THEN CHOOSE i \in 1..Len(seq) : Test(seq[i]) /\ \A j \in 1..(i - 1) : ~Test(seq[j])
    ELSE 0

\* Variant: the last element is removed whatever the index.
SpliceLast(seq, index) == SubSeq(seq, 1, Len(seq) - 1)

\* Array.prototype.splice(index, 1)
Splice(seq, index) ==
    [i \in 1..(Len(seq) - 1) |-> IF i < index THEN seq[i] ELSE seq[i + 1]]

----------------------------------------------------------------------------
(* Projection of edits and lookups *)

\* The predicate of the find/findIndex calls over the edit log.
EditMatches(edit, planDate, taskId, sessionNumber) ==
    /\ edit.planDate = planDate
    /\ edit.taskId = taskId
    /\ edit.sessionNumber = sessionNumber

\* Variant: only the start time is taken from the edit.
getEditedSessionStartOnly(session, planDate) ==
    LET Matches(e) == EditMatches(e, planDate, session.taskId, session.sessionNumber)
        index == FindIndex(sessionTimeEdits, Matches)
    IN  IF index > 0
        THEN [session EXCEPT !.startTime = sessionTimeEdits[index].newStartTime]
        ELSE session

getEditedSession(session, planDate) ==
    LET Matches(e) == EditMatches(e, planDate, session.taskId, session.sessionNumber)
        index == FindIndex(sessionTimeEdits, Matches)
    IN  IF index > 0
        THEN [session EXCEPT !.startTime = sessionTimeEdits[index].newStartTime,
                             !.endTime = sessionTimeEdits[index].newEndTime]
        ELSE session

applyEditsToPlans(plans) ==
    [p \in 1..Len(plans) |->
        [plans[p] EXCEPT !.plannedTasks =
            [i \in 1..Len(plans[p].plannedTasks) |->
                getEditedSession(plans[p].plannedTasks[i], plans[p].date)]]]

\* modification.field || commitment.field
Overlay(modification, commitment, field) ==
    IF field \in DOMAIN modification THEN modification[field] ELSE commitment[field]

\* Variant: the commitments of the date are sorted by start time.
getCommitmentsForDateSorted(date) ==
    LET dayOfWeek == getDay(date)
        Applies(commitment) ==
            IF date \in commitment.deletedOccurrences THEN FALSE
            ELSE IF commitment.recurring THEN dayOfWeek \in commitment.daysOfWeek
            ELSE date \in commitment.specificDates
        Modified(commitment) ==
            IF date \in DOMAIN commitment.modifiedOccurrences
            THEN LET modification == commitment.modifiedOccurrences[date]
                 IN  [commitment EXCEPT
                        !.startTime = Overlay(modification, commitment, "startTime"),
                        !.endTime = Overlay(modification, commitment, "endTime"),
                        !.title = Overlay(modification, commitment, "title")]
            ELSE commitment
        kept == SelectSeq(fixedCommitments, Applies)
        modified == [i \in 1..Len(kept) |-> Modified(kept[i])]
        Before(i, j) ==
            \/ timeToMinutes(modified[i].startTime) < timeToMinutes(modified[j].startTime)
            \/ /\ timeToMinutes(modified[i].startTime) = timeToMinutes(modified[j].startTime)
               /\ i < j
        Rank(i) == 1 + Cardinality({j \in 1..Len(modified) : Before(j, i)})
    IN  [r \in 1..Len(modified) |-> modified[CHOOSE i \in 1..Len(modified) : Rank(i) = r]]

getCommitmentsForDate(date) ==
    LET dayOfWeek == getDay(date)
        Applies(commitment) ==
            IF date \in commitment.deletedOccurrences THEN FALSE
            ELSE IF commitment.recurring THEN dayOfWeek \in commitment.daysOfWeek
            ELSE date \in commitment.specificDates
        Modified(commitment) ==
            IF date \in DOMAIN commitment.modifiedOccurrences
            THEN LET modification == commitment.modifiedOccurrences[date]
                 IN  [commitment EXCEPT
                        !.startTime = Overlay(modification, commitment, "startTime"),
                        !.endTime = Overlay(modification, commitment, "endTime"),
                        !.title = Overlay(modification, commitment, "title")]
            ELSE commitment
        kept == SelectSeq(fixedCommitments, Applies)
    IN  [i \in 1..Len(kept) |-> Modified(kept[i])]

\* Variant: the session is returned with the edits of the log applied.
findSessionEdited(planDate, taskId, sessionNumber) ==
    LET IsPlan(p) == p.date = planDate
        planIndex == FindIndex(studyPlans, IsPlan)
        IsSession(s) == s.taskId = taskId /\ s.sessionNumber = sessionNumber
    IN  IF planIndex = 0 THEN <<>>
        ELSE LET plannedTasks == studyPlans[planIndex].plannedTasks
                 index == FindIndex(plannedTasks, IsSession)
             IN  IF index = 0 THEN <<>>
                 ELSE getEditedSession(plannedTasks[index], planDate)

\* Variant: the session number is not compared.
findSessionAnyNumber(planDate, taskId, sessionNumber) ==
    LET IsPlan(p) == p.date = planDate
        planIndex == FindIndex(studyPlans, IsPlan)
        IsSession(s) == s.taskId = taskId
    IN  IF planIndex = 0 THEN <<>>
        ELSE LET plannedTasks == studyPlans[planIndex].plannedTasks
                 index == FindIndex(plannedTasks, IsSession)
             IN  IF index = 0 THEN <<>> ELSE plannedTasks[index]

\* The session record, or <<>> for null.
findSession(planDate, taskId, sessionNumber) ==
    LET IsPlan(p) == p.date = planDate
        planIndex == FindIndex(studyPlans, IsPlan)
        IsSession(s) == s.taskId = taskId /\ s.sessionNumber = sessionNumber
    IN  IF planIndex = 0 THEN <<>>
        ELSE LET plannedTasks == studyPlans[planIndex].plannedTasks
                 index == FindIndex(plannedTasks, IsSession)
             IN  IF index = 0 THEN <<>> ELSE plannedTasks[index]

----------------------------------------------------------------------------
(* Conflict checker and suggestion generator *)

\* Variant: the end of the candidate is not compared with the window end.
OutsideStudyWindowStartOnly(startMinutes, newEndMinutes) ==
    startMinutes < settings.studyWindowStartHour * 60

\* Variant: the start of the candidate is not compared with the window start.
OutsideStudyWindowEndOnly(startMinutes, newEndMinutes) ==
    newEndMinutes > settings.studyWindowEndHour * 60

\* startMinutes < studyStart || newEndMinutes > studyEnd
OutsideStudyWindow(startMinutes, newEndMinutes) ==
    LET studyStart == settings.studyWindowStartHour * 60
        studyEnd == settings.studyWindowEndHour * 60
    IN  startMinutes < studyStart \/ newEndMinutes > studyEnd

\* Variant: the negation is lost.
NotWorkDayInverted(planDate) == getDay(planDate) \in settings.workDays

\* !this.settings.workDays.includes(dayOfWeek)
NotWorkDay(planDate) ==
    LET dayOfWeek == getDay(planDate)
    IN  ~(dayOfWeek \in settings.workDays)

\* Variant: the session being edited is not skipped.
OverlappingSessionIndexNoExclude(plannedTasks, planDate, startMinutes, newEndMinutes, excludeSessionId) ==
    LET Collides(session) ==
            LET editedSession == getEditedSession(session, planDate)
            IN  /\ ~(session.status = "skipped" \/ session.done)
                /\ startMinutes < timeToMinutes(editedSession.endTime)
                /\ newEndMinutes > timeToMinutes(editedSession.startTime)
    IN  FindIndex(plannedTasks, Collides)

\* Variant: the candidate is compared with the session's time in the plan.
OverlappingSessionIndexBaseTime(plannedTasks, planDate, startMinutes, newEndMinutes, excludeSessionId) ==
    LET Collides(session) ==
            LET sessionId == <<session.taskId, session.sessionNumber>>
            IN  /\ ~(sessionId = excludeSessionId \/ session.status = "skipped"
                     \/ session.done)
                /\ startMinutes < timeToMinutes(session.endTime)
                /\ newEndMinutes > timeToMinutes(session.startTime)
    IN  FindIndex(plannedTasks, Collides)

\* Variant: the candidate's end is compared with the session's end.
OverlappingSessionIndexEndsAfter(plannedTasks, planDate, startMinutes, newEndMinutes, excludeSessionId) ==
    LET Collides(session) ==
            LET sessionId == <<session.taskId, session.sessionNumber>>
                editedSession == getEditedSession(session, planDate)
            IN  /\ ~(sessionId = excludeSessionId \/ session.status = "skipped"
                     \/ session.done)
                /\ startMinutes < timeToMinutes(editedSession.endTime)
                /\ newEndMinutes > timeToMinutes(editedSession.endTime)
    IN  FindIndex(plannedTasks, Collides)

\* Variant: the loop ends at the session being edited instead of skipping it.
OverlappingSessionIndexStopsAtExcluded(plannedTasks, planDate, startMinutes, newEndMinutes, excludeSessionId) ==
    LET IsExcluded(session) == <<session.taskId, session.sessionNumber>> = excludeSessionId
        Collides(session) ==
            LET editedSession == getEditedSession(session, planDate)
                sessionStart == timeToMinutes(editedSession.startTime)
                sessionEnd == timeToMinutes(editedSession.endTime)
            IN  /\ ~(IsExcluded(session) \/ session.status = "skipped" \/ session.done)
                /\ startMinutes < sessionEnd
                /\ newEndMinutes > sessionStart
        excludedIndex == FindIndex(plannedTasks, IsExcluded)
        index == FindIndex(plannedTasks, Collides)
    IN  IF excludedIndex > 0 /\ index > excludedIndex THEN 0 ELSE index

\* The loop over plan.plannedTasks: index of the first session that makes it
\* return a conflict, 0 when it runs to its end.
OverlappingSessionIndex(plannedTasks, planDate, startMinutes, newEndMinutes, excludeSessionId) ==
    LET Collides(session) ==
            LET sessionId == <<session.taskId, session.sessionNumber>>
                editedSession == getEditedSession(session, planDate)
                sessionStart == timeToMinutes(editedSession.startTime)
                sessionEnd == timeToMinutes(editedSession.endTime)
            IN  /\ ~(sessionId = excludeSessionId \/ session.status = "skipped"
                     \/ session.done)
                /\ startMinutes < sessionEnd
                /\ newEndMinutes > sessionStart
    IN  FindIndex(plannedTasks, Collides)

\* Variant: a commitment collides only when the candidate starts inside it.
OverlappingCommitmentIndexStartInside(dayCommitments, startMinutes, newEndMinutes) ==
    LET Collides(commitment) ==
            /\ startMinutes >= timeToMinutes(commitment.startTime)
            /\ startMinutes < timeToMinutes(commitment.endTime)
    IN  FindIndex(dayCommitments, Collides)

\* Variant: a commitment the candidate merely touches collides too.
OverlappingCommitmentIndexTouching(dayCommitments, startMinutes, newEndMinutes) ==
    LET Collides(commitment) ==
            LET commitmentStart == timeToMinutes(commitment.startTime)
                commitmentEnd == timeToMinutes(commitment.endTime)
            IN  startMinutes <= commitmentEnd /\ newEndMinutes >= commitmentStart
    IN  FindIndex(dayCommitments, Collides)

\* The loop over dayCommitments: index of the first colliding commitment, 0 when none.
OverlappingCommitmentIndex(dayCommitments, startMinutes, newEndMinutes) ==
    LET Collides(commitment) ==
            LET commitmentStart == timeToMinutes(commitment.startTime)
                commitmentEnd == timeToMinutes(commitment.endTime)
            IN  startMinutes < commitmentEnd /\ newEndMinutes > commitmentStart
    IN  FindIndex(dayCommitments, Collides)

RECURSIVE checkTimeConflict(_, _, _, _, _)

\* Variant: the slot pushed is the one after the slot checked.
RECURSIVE SuggestFromNextSlot(_, _, _, _, _)
SuggestFromNextSlot(minutes, suggestions, planDate, sessionDuration, excludeSessionId) ==
    LET studyEnd == settings.studyWindowEndHour * 60
        sessionMinutes == DurationMinutes(sessionDuration)
        conflictCheck ==
            checkTimeConflict(planDate, minutesToTime(minutes), sessionDuration,
                              excludeSessionId, FALSE)
        startTime == minutesToTime(minutes + 30)
    IN  IF ~(minutes <= studyEnd - sessionMinutes) THEN suggestions
        ELSE IF ~conflictCheck.hasConflict
        THEN IF Len(suggestions) + 1 >= 3
             THEN Append(suggestions, startTime)
             ELSE SuggestFromNextSlot(minutes + 30, Append(suggestions, startTime),
                                      planDate, sessionDuration, excludeSessionId)
        ELSE SuggestFromNextSlot(minutes + 30, suggestions,
                                 planDate, sessionDuration, excludeSessionId)

\* Variant: the scan stops before the last slot a session fits in.
RECURSIVE SuggestFromExclusiveEnd(_, _, _, _, _)
SuggestFromExclusiveEnd(minutes, suggestions, planDate, sessionDuration, excludeSessionId) ==
    LET studyEnd == settings.studyWindowEndHour * 60
        sessionMinutes == DurationMinutes(sessionDuration)
        startTime == minutesToTime(minutes)
        conflictCheck ==
            checkTimeConflict(planDate, startTime, sessionDuration, excludeSessionId, FALSE)
    IN  IF ~(minutes < studyEnd - sessionMinutes) THEN suggestions
        ELSE IF ~conflictCheck.hasConflict
        THEN IF Len(suggestions) + 1 >= 3
             THEN Append(suggestions, startTime)
             ELSE SuggestFromExclusiveEnd(minutes + 30, Append(suggestions, startTime),
                                          planDate, sessionDuration, excludeSessionId)
        ELSE SuggestFromExclusiveEnd(minutes + 30, suggestions,
                                     planDate, sessionDuration, excludeSessionId)

\* The for loop of generateSuggestedTimes, from `minutes` on.
RECURSIVE SuggestFrom(_, _, _, _, _)
SuggestFrom(minutes, suggestions, planDate, sessionDuration, excludeSessionId) ==
    LET studyEnd == settings.studyWindowEndHour * 60
        sessionMinutes == DurationMinutes(sessionDuration)
        startTime == minutesToTime(minutes)
        conflictCheck ==
            checkTimeConflict(planDate, startTime, sessionDuration, excludeSessionId, FALSE)
    IN  IF ~(minutes <= studyEnd - sessionMinutes) THEN suggestions
        ELSE IF ~conflictCheck.hasConflict
        THEN IF Len(suggestions) + 1 >= 3
             THEN Append(suggestions, startTime)
             ELSE SuggestFrom(minutes + 30, Append(suggestions, startTime),
                              planDate, sessionDuration, excludeSessionId)
        ELSE SuggestFrom(minutes + 30, suggestions,
                         planDate, sessionDuration, excludeSessionId)

\* Variant: the scan starts one slot after the study window start.
generateSuggestedTimesSkipsFirst(planDate, sessionDuration, excludeSessionId) ==
    SuggestFrom(settings.studyWindowStartHour * 60 + 30, <<>>,
                planDate, sessionDuration, excludeSessionId)

generateSuggestedTimes(planDate, sessionDuration, excludeSessionId) ==
    SuggestFrom(settings.studyWindowStartHour * 60, <<>>,
                planDate, sessionDuration, excludeSessionId)

\* Variant: the work-day check is made before the study-window check.
checkTimeConflictWorkDayFirst(planDate, newStartTime, sessionDuration, excludeSessionId, includeSuggestions) ==
    LET newEndMinutes == timeToMinutes(newStartTime) + DurationMinutes(sessionDuration)
        startMinutes == timeToMinutes(newStartTime)
        suggestedTimes ==
            IF includeSuggestions
            THEN generateSuggestedTimes(planDate, sessionDuration, excludeSessionId)
            ELSE <<>>
        IsPlan(p) == p.date = planDate
        planIndex == FindIndex(studyPlans, IsPlan)
        plannedTasks == IF planIndex > 0 THEN studyPlans[planIndex].plannedTasks ELSE <<>>
        sessionIndex ==
            OverlappingSessionIndex(plannedTasks, planDate, startMinutes, newEndMinutes,
                                    excludeSessionId)
        dayCommitments == getCommitmentsForDate(planDate)
        commitmentIndex ==
            OverlappingCommitmentIndex(dayCommitments, startMinutes, newEndMinutes)
    IN  IF NotWorkDay(planDate)
        THEN [hasConflict |-> TRUE,
              conflictsWith |-> <<"Not a work day">>,
              suggestedTimes |-> <<>>]
        ELSE IF OutsideStudyWindow(startMinutes, newEndMinutes)
        THEN [hasConflict |-> TRUE,
              conflictsWith |-> <<"Outside study window",
                                  settings.studyWindowStartHour,
                                  settings.studyWindowEndHour>>,
              suggestedTimes |-> suggestedTimes]
        ELSE IF sessionIndex > 0
        THEN LET editedSession == getEditedSession(plannedTasks[sessionIndex], planDate)
             IN  [hasConflict |-> TRUE,
                  conflictsWith |-> <<"Overlaps with session", editedSession.taskId,
                                      editedSession.startTime, editedSession.endTime>>,
                  suggestedTimes |-> suggestedTimes]
        ELSE IF commitmentIndex > 0
        THEN LET commitment == dayCommitments[commitmentIndex]
             IN  [hasConflict |-> TRUE,
                  conflictsWith |-> <<"Overlaps with", commitment.title,
                                      commitment.startTime, commitment.endTime>>,
                  suggestedTimes |-> suggestedTimes]
        ELSE [hasConflict |-> FALSE]

checkTimeConflict(planDate, newStartTime, sessionDuration, excludeSessionId, includeSuggestions) ==
    LET newEndMinutes == timeToMinutes(newStartTime) + DurationMinutes(sessionDuration)
        startMinutes == timeToMinutes(newStartTime)
        suggestedTimes ==
            IF includeSuggestions
            THEN generateSuggestedTimes(planDate, sessionDuration, excludeSessionId)
            ELSE <<>>
        IsPlan(p) == p.date = planDate
        planIndex == FindIndex(studyPlans, IsPlan)
        plannedTasks == IF planIndex > 0 THEN studyPlans[planIndex].plannedTasks ELSE <<>>
        sessionIndex ==
            OverlappingSessionIndex(plannedTasks, planDate, startMinutes, newEndMinutes,
                                    excludeSessionId)
        dayCommitments == getCommitmentsForDate(planDate)
        commitmentIndex ==
            OverlappingCommitmentIndex(dayCommitments, startMinutes, newEndMinutes)
    IN  IF OutsideStudyWindow(startMinutes, newEndMinutes)
        THEN [hasConflict |-> TRUE,
              conflictsWith |-> <<"Outside study window",
                                  settings.studyWindowStartHour,
                                  settings.studyWindowEndHour>>,
              suggestedTimes |-> suggestedTimes]
        ELSE IF NotWorkDay(planDate)
        THEN [hasConflict |-> TRUE,
              conflictsWith |-> <<"Not a work day">>,
              suggestedTimes |-> <<>>]
        ELSE IF sessionIndex > 0
        THEN LET editedSession == getEditedSession(plannedTasks[sessionIndex], planDate)
             IN  [hasConflict |-> TRUE,
                  conflictsWith |-> <<"Overlaps with session", editedSession.taskId,
                                      editedSession.startTime, editedSession.endTime>>,
                  suggestedTimes |-> suggestedTimes]
        ELSE IF commitmentIndex > 0
        THEN LET commitment == dayCommitments[commitmentIndex]
             IN  [hasConflict |-> TRUE,
                  conflictsWith |-> <<"Overlaps with", commitment.title,
                                      commitment.startTime, commitment.endTime>>,
                  suggestedTimes |-> suggestedTimes]
        ELSE [hasConflict |-> FALSE]

----------------------------------------------------------------------------
(* Persistence *)

\* JSON.stringify(this.sessionTimeEdits)
JSONstringify(edits) == [kind |-> "json", edits |-> edits]

\* The constructor's load: no item or unparsable text gives the empty log.
loadEdits(item) == IF item.kind = "json" THEN item.edits ELSE <<>>

\* setItem stores the text, or throws and the exception is caught and logged.
saveEdits(edits) ==
    localStorage' = IF quotaExceeded THEN localStorage ELSE JSONstringify(edits)

----------------------------------------------------------------------------
(* Initial states *)

Session(taskId, sessionNumber, startTime, endTime, allocatedHours, status, done) ==
    [taskId |-> taskId, sessionNumber |-> sessionNumber,
     startTime |-> startTime, endTime |-> endTime,
     allocatedHours |-> allocatedHours, status |-> status, done |-> done]

Commitment(id, title, startTime, endTime, recurring, daysOfWeek, specificDates, deletedOccurrences, modifiedOccurrences) ==
    [id |-> id, title |-> title, type |-> "other",
     startTime |-> startTime, endTime |-> endTime,
     recurring |-> recurring, daysOfWeek |-> daysOfWeek,
     specificDates |-> specificDates,
     deletedOccurrences |-> deletedOccurrences,
     modifiedOccurrences |-> modifiedOccurrences]

NoModifications == [d \in {} |-> <<>>]

Gym == Commitment("c1", "Gym", <<10, 0>>, <<11, 0>>, TRUE, {3, 6}, {}, {}, NoModifications)

\* A one-time commitment listed for Wednesday and Thursday: the Thursday
\* occurrence is deleted, the Wednesday one starts earlier and is of type class.
Class ==
    Commitment("c2", "Class", <<11, 0>>, <<12, 0>>, FALSE, {}, {Wed, Thu}, {Thu},
               [d \in {Wed} |-> [startTime |-> <<10, 30>>, type |-> "class"]])

\* A Thursday of two sessions of one hour each; `second` is the status and the
\* done flag of the second one.
Thursday(second) ==
    << [date |-> Thu,
        plannedTasks |->
            << Session("T1", 2, <<9, 0>>, <<10, 0>>, OneHour, "scheduled", FALSE),
               Session("T2", 1, <<10, 30>>, <<11, 30>>, OneHour, second[1], second[2]) >>] >>

NoThursday == <<>>

Plans(first, second, thursday) ==
    << [date |-> Wed,
        plannedTasks |->
            << Session("T1", 1, <<9, 0>>, <<10, 0>>, OneHour, first, FALSE),
               Session("T2", 1, <<11, 0>>, <<11, 30>>, HalfHour, second[1], second[2]) >>],
       [date |-> Sat,
        plannedTasks |->
            << Session("T1", 2, <<9, 0>>, <<10, 0>>, OneHour, "scheduled", FALSE) >>] >>
    \o thursday

Settings(workDays) ==
    [studyWindowStartHour |-> 9, studyWindowEndHour |-> 12, workDays |-> workDays,
     dailyAvailableHours |-> 2]

MonToFri == {1, 2, 3, 4, 5}
MonToSat == {1, 2, 3, 4, 5, 6}

\* An edit persisted by an earlier editor over the same store.
StoredEdit ==
    [id |-> <<"edit", -1>>, planDate |-> Wed, taskId |-> "T2", sessionNumber |-> 1,
     originalStartTime |-> <<11, 0>>, newStartTime |-> <<11, 30>>,
     newEndTime |-> <<12, 0>>, editedAt |-> -1, isTemporary |-> FALSE]

\* A second edit of that earlier editor, of the Saturday session.
StoredEditSat ==
    [id |-> <<"edit", -2>>, planDate |-> Sat, taskId |-> "T1", sessionNumber |-> 2,
     originalStartTime |-> <<9, 0>>, newStartTime |-> <<11, 0>>,
     newEndTime |-> <<12, 0>>, editedAt |-> -2, isTemporary |-> FALSE]

NoItem == [kind |-> "null"]
CorruptItem == [kind |-> "corrupt"]

\* The constructor arguments and the stored item an editor may start from.
Scenarios ==
    { [plans |-> Plans("missed", <<"scheduled", FALSE>>, Thursday(<<"missed", FALSE>>)),
       commitments |-> <<Gym>>,
       settings |-> Settings(MonToFri), item |-> NoItem, quotaExceeded |-> FALSE],
      [plans |-> Plans("scheduled", <<"skipped", FALSE>>, NoThursday), commitments |-> <<Class, Gym>>,
       settings |-> Settings(MonToSat), item |-> CorruptItem, quotaExceeded |-> FALSE],
      [plans |-> Plans("scheduled", <<"completed", TRUE>>, Thursday(<<"completed", TRUE>>)),
       commitments |-> <<Class, Gym>>,
       settings |-> Settings(MonToFri), item |-> JSONstringify(<<StoredEdit, StoredEditSat>>),
       quotaExceeded |-> FALSE],
      [plans |-> Plans("missed", <<"scheduled", FALSE>>, NoThursday), commitments |-> <<Class, Gym>>,
       settings |-> Settings(MonToFri), item |-> JSONstringify(<<>>),
       quotaExceeded |-> TRUE] }

Idle == [op |-> "idle"]

\* selectedSessionForEdit is null: no modal is rendered
ClosedModal == [isOpen |-> FALSE]

Init ==
    /\ \E scenario \in Scenarios :
          /\ studyPlans = scenario.plans
          /\ fixedCommitments = scenario.commitments
          /\ settings = scenario.settings
          /\ localStorage = scenario.item
          /\ quotaExceeded = scenario.quotaExceeded
    /\ sessionTimeEdits = loadEdits(localStorage)
    /\ now = 0
    /\ lastCall = Idle
    /\ displayedPlans = studyPlans
    /\ modal = ClosedModal

----------------------------------------------------------------------------
(* Operations *)

\* The view is mounted again: new SessionTimeEditor(studyPlans, fixedCommitments,
\* settings) over the same store and the props of that render, no modal open.
Construct ==
    /\ lastCall = Idle
    /\ studyPlans' = displayedPlans
    /\ sessionTimeEdits' = loadEdits(localStorage)
    /\ modal' = ClosedModal
    /\ lastCall' = [op |-> "constructor"]
    /\ UNCHANGED <<displayedPlans, fixedCommitments, settings, quotaExceeded, localStorage, now>>

\* Variant: the checker drops the edit of the session it excludes.
CheckTimeConflictDropsExcluded(planDate, newStartTime, sessionDuration, excludeSessionId) ==
    LET Other(e) ==
            ~(e.planDate = planDate /\ <<e.taskId, e.sessionNumber>> = excludeSessionId)
    IN  /\ lastCall = Idle
        /\ UNCHANGED view
        /\ lastCall' =
              [op |-> "checkTimeConflict",
               args |-> <<planDate, newStartTime, sessionDuration, excludeSessionId>>,
               result |-> checkTimeConflict(planDate, newStartTime, sessionDuration,
                                            excludeSessionId, TRUE)]
        /\ sessionTimeEdits' = SelectSeq(sessionTimeEdits, Other)
        /\ UNCHANGED <<studyPlans, fixedCommitments, settings, quotaExceeded,
                       localStorage, now>>

CheckTimeConflict(planDate, newStartTime, sessionDuration, excludeSessionId) ==
    /\ lastCall = Idle
    /\ UNCHANGED view
    /\ lastCall' =
          [op |-> "checkTimeConflict",
           args |-> <<planDate, newStartTime, sessionDuration, excludeSessionId>>,
           result |-> checkTimeConflict(planDate, newStartTime, sessionDuration,
                                        excludeSessionId, TRUE)]
    /\ UNCHANGED <<studyPlans, fixedCommitments, settings, quotaExceeded, sessionTimeEdits,
                   localStorage, now>>

\* Variant: the edit is always pushed.
UpsertAlwaysPush(edits, existingEditIndex, edit) == Append(edits, edit)

\* Replace the edit at existingEditIndex, or push when there is none.
Upsert(edits, existingEditIndex, edit) ==
    IF existingEditIndex > 0
    THEN [edits EXCEPT ![existingEditIndex] = edit]
    ELSE Append(edits, edit)

\* Variant: the edit is stored before the conflict check is consulted.
EditSessionTimeStoresFirst(planDate, taskId, sessionNumber, newStartTime, sessionDuration) ==
    LET sessionId == <<taskId, sessionNumber>>
        conflictCheck ==
            checkTimeConflict(planDate, newStartTime, sessionDuration, sessionId, TRUE)
        newEndMinutes == timeToMinutes(newStartTime) + DurationMinutes(sessionDuration)
        newEndTime == minutesToTime(newEndMinutes)
        Matches(e) == EditMatches(e, planDate, taskId, sessionNumber)
        existingEditIndex == FindIndex(sessionTimeEdits, Matches)
        session == findSession(planDate, taskId, sessionNumber)
        edit ==
            [id |-> IF existingEditIndex > 0
                    THEN sessionTimeEdits[existingEditIndex].id
                    ELSE <<"edit", now>>,
             planDate |-> planDate,
             taskId |-> taskId,
             sessionNumber |-> sessionNumber,
             originalStartTime |-> session.startTime,
             newStartTime |-> newStartTime,
             newEndTime |-> newEndTime,
             editedAt |-> now,
             isTemporary |-> TRUE]
        args == <<planDate, taskId, sessionNumber, newStartTime, sessionDuration>>
        Returns(result) ==
            lastCall' = [op |-> "editSessionTime", args |-> args, result |-> result]
    IN  /\ lastCall = Idle
        /\ UNCHANGED view
        /\ IF conflictCheck.hasConflict
           THEN /\ Returns([success |-> FALSE, error |-> conflictCheck.conflictsWith])
                /\ sessionTimeEdits' =
                      IF session = <<>> THEN sessionTimeEdits
                      ELSE Upsert(sessionTimeEdits, existingEditIndex, edit)
                /\ saveEdits(sessionTimeEdits')
                /\ UNCHANGED now
           ELSE IF session = <<>>
           THEN /\ Returns([success |-> FALSE, error |-> <<"Session not found">>])
                /\ UNCHANGED <<sessionTimeEdits, localStorage, now>>
           ELSE /\ now < MaxNow
                /\ sessionTimeEdits' = Upsert(sessionTimeEdits, existingEditIndex, edit)
                /\ saveEdits(sessionTimeEdits')
                /\ now' = now + 1
                /\ Returns([success |-> TRUE])
        /\ UNCHANGED <<studyPlans, fixedCommitments, settings, quotaExceeded>>

EditSessionTime(planDate, taskId, sessionNumber, newStartTime, sessionDuration) ==
    LET sessionId == <<taskId, sessionNumber>>
        conflictCheck ==
            checkTimeConflict(planDate, newStartTime, sessionDuration, sessionId, TRUE)
        newEndMinutes == timeToMinutes(newStartTime) + DurationMinutes(sessionDuration)
        newEndTime == minutesToTime(newEndMinutes)
        Matches(e) == EditMatches(e, planDate, taskId, sessionNumber)
        existingEditIndex == FindIndex(sessionTimeEdits, Matches)
        session == findSession(planDate, taskId, sessionNumber)
        edit ==
            [id |-> IF existingEditIndex > 0
                    THEN sessionTimeEdits[existingEditIndex].id
                    ELSE <<"edit", now>>,
             planDate |-> planDate,
             taskId |-> taskId,
             sessionNumber |-> sessionNumber,
             originalStartTime |-> session.startTime,
             newStartTime |-> newStartTime,
             newEndTime |-> newEndTime,
             editedAt |-> now,
             isTemporary |-> TRUE]
        args == <<planDate, taskId, sessionNumber, newStartTime, sessionDuration>>
        Returns(result) ==
            lastCall' = [op |-> "editSessionTime", args |-> args, result |-> result]
    IN  /\ lastCall = Idle
        /\ UNCHANGED view
        /\ IF conflictCheck.hasConflict
           THEN /\ Returns([success |-> FALSE, error |-> conflictCheck.conflictsWith])
                /\ UNCHANGED <<sessionTimeEdits, localStorage, now>>
           ELSE IF session = <<>>
           THEN /\ Returns([success |-> FALSE, error |-> <<"Session not found">>])
                /\ UNCHANGED <<sessionTimeEdits, localStorage, now>>
           ELSE /\ now < MaxNow
                /\ sessionTimeEdits' = Upsert(sessionTimeEdits, existingEditIndex, edit)
                /\ saveEdits(sessionTimeEdits')
                /\ now' = now + 1
                /\ Returns([success |-> TRUE])
        /\ UNCHANGED <<studyPlans, fixedCommitments, settings, quotaExceeded>>

RemoveEdit(planDate, taskId, sessionNumber) ==
    LET Matches(e) == EditMatches(e, planDate, taskId, sessionNumber)
        index == FindIndex(sessionTimeEdits, Matches)
        Returns(result) ==
            lastCall' = [op |-> "removeEdit",
                         args |-> <<planDate, taskId, sessionNumber>>,
                         result |-> result]
    IN  /\ lastCall = Idle
        /\ UNCHANGED view
        /\ IF index > 0
           THEN /\ sessionTimeEdits' = Splice(sessionTimeEdits, index)
                /\ saveEdits(sessionTimeEdits')
                /\ Returns(TRUE)
           ELSE /\ Returns(FALSE)
                /\ UNCHANGED <<sessionTimeEdits, localStorage>>
        /\ UNCHANGED <<studyPlans, fixedCommitments, settings, quotaExceeded, now>>

\* Variant: the filter keeps the temporary edits.
ClearTemporaryEditsKeepsTemporary ==
    LET Kept(edit) == edit.isTemporary
    IN  /\ lastCall = Idle
        /\ UNCHANGED view
        /\ sessionTimeEdits' = SelectSeq(sessionTimeEdits, Kept)
        /\ saveEdits(sessionTimeEdits')
        /\ lastCall' = [op |-> "clearTemporaryEdits"]
        /\ UNCHANGED <<studyPlans, fixedCommitments, settings, quotaExceeded, now>>

ClearTemporaryEdits ==
    LET Kept(edit) == ~edit.isTemporary
    IN  /\ lastCall = Idle
        /\ UNCHANGED view
        /\ sessionTimeEdits' = SelectSeq(sessionTimeEdits, Kept)
        /\ saveEdits(sessionTimeEdits')
        /\ lastCall' = [op |-> "clearTemporaryEdits"]
        /\ UNCHANGED <<studyPlans, fixedCommitments, settings, quotaExceeded, now>>

\* The view's "Yes, Generate Plan" button, out of reach under the overlay of
\* an open modal: it calls the onGenerateStudyPlan prop and sets view state;
\* the editor the view holds is not called.
GenerateStudyPlan ==
    /\ lastCall = Idle
    /\ ~modal.isOpen
    /\ UNCHANGED view
    /\ lastCall' = [op |-> "onGenerateStudyPlan"]
    /\ UNCHANGED <<studyPlans, fixedCommitments, settings, quotaExceeded, sessionTimeEdits,
                   localStorage, now>>

----------------------------------------------------------------------------
(* Redistribution engine (utils/scheduling, specified in section 4.6): the  *)
(* missed sessions are taken in calendar order; each is placed on the first *)
(* eligible day of its window, at the first slot the conflict checker       *)
(* accepts, or reported as failed.                                          *)

\* the consecutive days the engine can scan
Calendar == <<Wed, Thu, Fri, Sat>>

DayIndex(date) == CHOOSE i \in 1..Len(Calendar) : Calendar[i] = date

\* the options a caller may pass
RedistributionOptions ==
    { [prioritizeMissedSessions |-> TRUE, respectDailyLimits |-> limits,
       allowWeekendOverflow |-> FALSE, maxRedistributionDays |-> days] :
         limits \in BOOLEAN, days \in {1, 2} }

RECURSIVE SumSeq(_)
SumSeq(numbers) ==
    IF numbers = <<>> THEN 0 ELSE Head(numbers) + SumSeq(Tail(numbers))

\* the planned sessions of a date, <<>> when the date has no plan
PlannedTasks(date) ==
    LET IsPlan(p) == p.date = date
        planIndex == FindIndex(studyPlans, IsPlan)
    IN  IF planIndex = 0 THEN <<>> ELSE studyPlans[planIndex].plannedTasks

\* the missed sessions with their dates, from calendar day i on
RECURSIVE MissedFrom(_)
MissedFrom(i) ==
    IF i > Len(Calendar) THEN <<>>
    ELSE LET IsMissed(session) == session.status = "missed"
             missed == SelectSeq(PlannedTasks(Calendar[i]), IsMissed)
         IN  [k \in 1..Len(missed) |-> [date |-> Calendar[i], session |-> missed[k]]]
             \o MissedFrom(i + 1)

\* minutes already committed on a date: non-skipped sessions, commitments, and
\* the sessions placed so far
CommittedMinutes(date, placed) ==
    LET plannedTasks == PlannedTasks(date)
        dayCommitments == getCommitmentsForDate(date)
        OnDate(slot) == slot.date = date
        placedHere == SelectSeq(placed, OnDate)
    IN  SumSeq([i \in 1..Len(plannedTasks) |->
                   IF plannedTasks[i].status = "skipped" THEN 0
                   ELSE DurationMinutes(plannedTasks[i].allocatedHours)])
        + SumSeq([i \in 1..Len(dayCommitments) |->
                     timeToMinutes(dayCommitments[i].endTime)
                     - timeToMinutes(dayCommitments[i].startTime)])
        + SumSeq([i \in 1..Len(placedHere) |-> placedHere[i].endMinutes - placedHere[i].startMinutes])

\* the day may receive the session
EligibleDay(date, session, placed, options) ==
    /\ options.allowWeekendOverflow \/ getDay(date) \in settings.workDays
    /\ options.respectDailyLimits =>
          CommittedMinutes(date, placed) + DurationMinutes(session.allocatedHours)
             <= settings.dailyAvailableHours * 60

\* the start minutes on the half-hour grid of the study window at which the
\* checker accepts the session on the date and no placed session is met
LegalSlots(date, session, placed) ==
    LET sessionMinutes == DurationMinutes(session.allocatedHours)
        studyStart == settings.studyWindowStartHour * 60
        studyEnd == settings.studyWindowEndHour * 60
        sessionId == <<session.taskId, session.sessionNumber>>
    IN  {m \in studyStart..(studyEnd - sessionMinutes) :
            /\ (m - studyStart) % 30 = 0
            /\ ~checkTimeConflict(date, minutesToTime(m), session.allocatedHours,
                                  sessionId, FALSE).hasConflict
            /\ \A i \in 1..Len(placed) :
                  placed[i].date = date =>
                     ~(m < placed[i].endMinutes /\ m + sessionMinutes > placed[i].startMinutes)}

\* the calendar days of the window of a session missed on `date` that are
\* eligible and hold a legal slot
TargetDays(date, session, placed, options) ==
    {i \in (DayIndex(date) + 1)..(DayIndex(date) + options.maxRedistributionDays) :
        /\ i <= Len(Calendar)
        /\ EligibleDay(Calendar[i], session, placed, options)
        /\ LegalSlots(Calendar[i], session, placed) # {}}

Minimum(S) == CHOOSE m \in S : \A n \in S : m <= n

\* Variant: a failed session is counted as moved.
RecordFailureCountsMoved(result, item, options) ==
    [result EXCEPT
        !.failedSessions =
            Append(@, [session |-> item.session,
                       reason |-> <<"no available slot within days",
                                    options.maxRedistributionDays>>]),
        !.totalSessionsMoved = @ + 1]

\* on failure to place within the window
RecordFailure(result, item, options) ==
    [result EXCEPT
        !.failedSessions =
            Append(@, [session |-> item.session,
                       reason |-> <<"no available slot within days",
                                    options.maxRedistributionDays>>])]

\* on success: the session at its new slot, the prior slot superseded
RecordMove(result, item, dayIndex, startMinutes) ==
    LET session == item.session
        endMinutes == startMinutes + DurationMinutes(session.allocatedHours)
        firstChoice == settings.studyWindowStartHour * 60
        moved ==
            [taskId |-> session.taskId, sessionNumber |-> session.sessionNumber,
             startTime |-> minutesToTime(startMinutes),
             endTime |-> minutesToTime(endMinutes),
             allocatedHours |-> session.allocatedHours,
             status |-> "rescheduled", done |-> session.done,
             originalTime |-> session.startTime, originalDate |-> item.date]
    IN  [result EXCEPT
            !.redistributedSessions = Append(@, moved),
            !.totalSessionsMoved = @ + 1,
            !.conflictsResolved = IF startMinutes # firstChoice THEN @ + 1 ELSE @,
            !.placed = Append(@, [date |-> Calendar[dayIndex],
                                  startMinutes |-> startMinutes,
                                  endMinutes |-> endMinutes])]

RECURSIVE RedistributeFrom(_, _, _, _)
RedistributeFrom(i, missed, result, options) ==
    IF i > Len(missed) THEN result
    ELSE LET item == missed[i]
             days == TargetDays(item.date, item.session, result.placed, options)
         IN  IF days = {}
             THEN RedistributeFrom(i + 1, missed, RecordFailure(result, item, options), options)
             ELSE LET dayIndex == Minimum(days)
                      startMinutes ==
                          Minimum(LegalSlots(Calendar[dayIndex], item.session, result.placed))
                  IN  RedistributeFrom(i + 1, missed,
                                       RecordMove(result, item, dayIndex, startMinutes),
                                       options)

redistributeMissedSessionsEnhanced(options) ==
    LET result ==
            RedistributeFrom(1, MissedFrom(1),
                             [redistributedSessions |-> <<>>, failedSessions |-> <<>>,
                              conflictsResolved |-> 0, totalSessionsMoved |-> 0,
                              placed |-> <<>>],
                             options)
    IN  [redistributedSessions |-> result.redistributedSessions,
         failedSessions |-> result.failedSessions,
         conflictsResolved |-> result.conflictsResolved,
         totalSessionsMoved |-> result.totalSessionsMoved]

\* A bulk redistribution over the plans, settings and commitments of the view.
RedistributeMissedSessions(options) ==
    /\ lastCall = Idle
    /\ UNCHANGED view
    /\ lastCall' = [op |-> "redistributeMissedSessionsEnhanced",
                    args |-> <<options>>,
                    result |-> redistributeMissedSessionsEnhanced(options)]
    /\ UNCHANGED <<studyPlans, fixedCommitments, settings, quotaExceeded, sessionTimeEdits,
                   localStorage, now>>

----------------------------------------------------------------------------
(* The view and its edit modal.  The view builds its editor once, when it  *)
(* is mounted, shows applyEditsToPlans of the studyPlans prop of each       *)
(* render, and reaches the editor through the modal only.                   *)

\* the value "" of a cleared time input
EmptyTime == <<>>

\* Plans a regeneration may hand to the view: Wednesday's two sessions swap
\* ends of the study window and a second session of T2 is planned.
SwappedPlans ==
    << [date |-> Wed,
        plannedTasks |->
            << Session("T1", 1, <<11, 0>>, <<12, 0>>, OneHour, "scheduled", FALSE),
               Session("T2", 1, <<9, 0>>, <<9, 30>>, HalfHour, "scheduled", FALSE),
               Session("T2", 2, <<9, 30>>, <<10, 0>>, HalfHour, "scheduled", FALSE) >>],
       [date |-> Sat,
        plannedTasks |->
            << Session("T1", 2, <<9, 0>>, <<10, 0>>, OneHour, "scheduled", FALSE) >>] >>

\* no session of the plans overlaps a commitment of its date
RespectsCommitments(plans) ==
    \A p \in 1..Len(plans) : \A i \in 1..Len(plans[p].plannedTasks) :
        OverlappingCommitmentIndex(getCommitmentsForDate(plans[p].date),
                                   timeToMinutes(plans[p].plannedTasks[i].startTime),
                                   timeToMinutes(plans[p].plannedTasks[i].endTime)) = 0

\* the studyPlans prop the parent may pass after a regeneration
GeneratedPlans == {plans \in {SwappedPlans} : RespectsCommitments(plans)}

\* The parent renders the view again after onGenerateStudyPlan, with the
\* regenerated plans as studyPlans prop; the editor stays the one built at mount.
Rerender(plans) ==
    /\ lastCall = [op |-> "onGenerateStudyPlan"]
    /\ displayedPlans' = plans
    /\ lastCall' = Idle
    /\ UNCHANGED <<studyPlans, fixedCommitments, settings, quotaExceeded, sessionTimeEdits,
                   localStorage, now, modal>>

\* editSessionTime as a function of the editor's state: the value returned and
\* the edit log after the call.
editSessionTime(planDate, taskId, sessionNumber, newStartTime, sessionDuration) ==
    LET sessionId == <<taskId, sessionNumber>>
        conflictCheck ==
            checkTimeConflict(planDate, newStartTime, sessionDuration, sessionId, TRUE)
        newEndMinutes == timeToMinutes(newStartTime) + DurationMinutes(sessionDuration)
        newEndTime == minutesToTime(newEndMinutes)
        Matches(e) == EditMatches(e, planDate, taskId, sessionNumber)
        existingEditIndex == FindIndex(sessionTimeEdits, Matches)
        session == findSession(planDate, taskId, sessionNumber)
        edit ==
            [id |-> IF existingEditIndex > 0
                    THEN sessionTimeEdits[existingEditIndex].id
                    ELSE <<"edit", now>>,
             planDate |-> planDate,
             taskId |-> taskId,
             sessionNumber |-> sessionNumber,
             originalStartTime |-> session.startTime,
             newStartTime |-> newStartTime,
             newEndTime |-> newEndTime,
             editedAt |-> now,
             isTemporary |-> TRUE]
    IN  IF conflictCheck.hasConflict
        THEN [result |-> [success |-> FALSE, error |-> conflictCheck.conflictsWith],
              edits |-> sessionTimeEdits]
        ELSE IF session = <<>>
        THEN [result |-> [success |-> FALSE, error |-> <<"Session not found">>],
              edits |-> sessionTimeEdits]
        ELSE [result |-> [success |-> TRUE],
              edits |-> Upsert(sessionTimeEdits, existingEditIndex, edit)]

\* checkConflict of the modal: the editor's answer for the modal's session
checkConflict(planDate, session, startTime) ==
    checkTimeConflict(planDate, startTime, session.allocatedHours,
                      <<session.taskId, session.sessionNumber>>, TRUE)

\* The edit button of session i of displayed plan p: the modal opens on the
\* session as displayed, its effect sets the start time and checks it.
HandleEditSessionTime(p, i) ==
    LET session == applyEditsToPlans(displayedPlans)[p].plannedTasks[i]
        planDate == displayedPlans[p].date
    IN  /\ lastCall = Idle
        /\ ~modal.isOpen
        /\ modal' = [isOpen |-> TRUE, session |-> session, planDate |-> planDate,
                     newStartTime |-> session.startTime,
                     conflictCheck |-> checkConflict(planDate, session, session.startTime)]
        /\ UNCHANGED <<studyPlans, fixedCommitments, settings, quotaExceeded, sessionTimeEdits,
                       localStorage, now, lastCall, displayedPlans>>

\* The time input changes: a time is checked, the empty value is not.
HandleTimeChange(time) ==
    /\ lastCall = Idle
    /\ modal.isOpen
    /\ modal' = [modal EXCEPT
                    !.newStartTime = time,
                    !.conflictCheck =
                        IF time # EmptyTime
                        THEN checkConflict(modal.planDate, modal.session, time)
                        ELSE @]
    /\ UNCHANGED <<studyPlans, fixedCommitments, settings, quotaExceeded, sessionTimeEdits,
                   localStorage, now, lastCall, displayedPlans>>

\* A click on the i-th suggested time of the conflict shown.
SuggestionClick(i) ==
    /\ lastCall = Idle
    /\ modal.isOpen
    /\ modal.conflictCheck.hasConflict
    /\ i \in 1..Len(modal.conflictCheck.suggestedTimes)
    /\ modal' = [modal EXCEPT
                    !.newStartTime = modal.conflictCheck.suggestedTimes[i],
                    !.conflictCheck =
                        checkConflict(modal.planDate, modal.session,
                                      modal.conflictCheck.suggestedTimes[i])]
    /\ UNCHANGED <<studyPlans, fixedCommitments, settings, quotaExceeded, sessionTimeEdits,
                   localStorage, now, lastCall, displayedPlans>>

\* Variant: onSave and onClose are called whatever editSessionTime returned.
HandleSaveAlwaysCloses ==
    LET session == modal.session
        args == <<modal.planDate, session.taskId, session.sessionNumber,
                  modal.newStartTime, session.allocatedHours>>
        outcome == editSessionTime(args[1], args[2], args[3], args[4], args[5])
    IN  /\ lastCall = Idle
        /\ modal.isOpen
        /\ ~(modal.conflictCheck.hasConflict \/ modal.newStartTime = EmptyTime)
        /\ outcome.result.success => now < MaxNow
        /\ sessionTimeEdits' = outcome.edits
        /\ IF outcome.result.success
           THEN saveEdits(sessionTimeEdits') /\ now' = now + 1
           ELSE UNCHANGED <<localStorage, now>>
        /\ modal' = ClosedModal
        /\ lastCall' = [op |-> "handleSave", args |-> args, result |-> outcome.result,
                        onSave |-> TRUE, onClose |-> TRUE]
        /\ UNCHANGED <<studyPlans, fixedCommitments, settings, quotaExceeded, displayedPlans>>

\* A click on "Save Changes", enabled when the cached check shows no conflict
\* and a time is entered: handleSave calls editSessionTime; on success onSave
\* and onClose are called, otherwise the error is alerted.
HandleSave ==
    LET session == modal.session
        args == <<modal.planDate, session.taskId, session.sessionNumber,
                  modal.newStartTime, session.allocatedHours>>
        outcome == editSessionTime(args[1], args[2], args[3], args[4], args[5])
    IN  /\ lastCall = Idle
        /\ modal.isOpen
        /\ ~(modal.conflictCheck.hasConflict \/ modal.newStartTime = EmptyTime)
        /\ IF outcome.result.success
           THEN /\ now < MaxNow
                /\ sessionTimeEdits' = outcome.edits
                /\ saveEdits(sessionTimeEdits')
                /\ now' = now + 1
                /\ modal' = ClosedModal
                /\ lastCall' = [op |-> "handleSave", args |-> args, result |-> outcome.result,
                                onSave |-> TRUE, onClose |-> TRUE]
           ELSE /\ lastCall' = [op |-> "handleSave", args |-> args, result |-> outcome.result,
                                onSave |-> FALSE, onClose |-> FALSE]
                /\ UNCHANGED <<sessionTimeEdits, localStorage, now, modal>>
        /\ UNCHANGED <<studyPlans, fixedCommitments, settings, quotaExceeded, displayedPlans>>

\* Cancel or the close button: onClose.
CloseModal ==
    /\ lastCall = Idle
    /\ modal.isOpen
    /\ modal' = ClosedModal
    /\ UNCHANGED <<studyPlans, fixedCommitments, settings, quotaExceeded, sessionTimeEdits,
                   localStorage, now, lastCall, displayedPlans>>

----------------------------------------------------------------------------

\* The caller takes the returned value; the editor is ready for the next call.
Return ==
    /\ lastCall # Idle
    /\ UNCHANGED view
    /\ lastCall' = Idle
    /\ UNCHANGED <<studyPlans, fixedCommitments, settings, quotaExceeded, sessionTimeEdits,
                   localStorage, now>>

Next ==
    \/ Construct
    \/ \E d \in Dates, t \in StartTimes, h \in Durations, x \in ExcludeIds :
          CheckTimeConflict(d, t, h, x)
    \/ \E k \in SessionKeys, t \in StartTimes, h \in Durations :
          EditSessionTime(k[1], k[2], k[3], t, h)
    \/ \E k \in SessionKeys : RemoveEdit(k[1], k[2], k[3])
    \/ ClearTemporaryEdits
    \/ GenerateStudyPlan
    \/ \E options \in RedistributionOptions : RedistributeMissedSessions(options)
    \/ Return

Spec == Init /\ [][Next]_vars

\* the times a user may enter in the modal
EnteredTimes == StartTimes \cup {EmptyTime}

\* What a user of the view can do.
NextView ==
    \/ Construct
    \/ \E p \in 1..Len(displayedPlans) :
          \E i \in 1..Len(displayedPlans[p].plannedTasks) : HandleEditSessionTime(p, i)
    \/ \E time \in EnteredTimes : HandleTimeChange(time)
    \/ \E i \in 1..3 : SuggestionClick(i)
    \/ HandleSave
    \/ CloseModal
    \/ GenerateStudyPlan
    \/ \E plans \in GeneratedPlans : Rerender(plans)
    \/ Return

SpecView == Init /\ [][NextView]_vars

----------------------------------------------------------------------------
(* Vocabulary of the properties.  The four checks of the conflict checker  *)
(* are stated over sets, without the order in which the code makes them.   *)

Returned(op) == lastCall.op = op

\* the study window of the settings, in minutes
WindowStart == settings.studyWindowStartHour * 60
WindowEnd == settings.studyWindowEndHour * 60

CandidateStart(t) == timeToMinutes(t)
CandidateEnd(t, h) == timeToMinutes(t) + DurationMinutes(h)

WindowFails(t, h) == CandidateStart(t) < WindowStart \/ CandidateEnd(t, h) > WindowEnd

WorkDayFails(d) == getDay(d) \notin settings.workDays

\* the sessions planned on date d, as the plans hold them
BaseSessions(d) ==
    UNION {{studyPlans[p].plannedTasks[i] : i \in 1..Len(studyPlans[p].plannedTasks)} :
              p \in {q \in 1..Len(studyPlans) : studyPlans[q].date = d}}

KeyOf(s) == <<s.taskId, s.sessionNumber>>

IsActive(s) == s.status # "skipped" /\ ~s.done

\* the edits of the log for one session key
EditsOf(d, x) ==
    {sessionTimeEdits[i] : i \in {j \in 1..Len(sessionTimeEdits) :
        /\ sessionTimeEdits[j].planDate = d
        /\ <<sessionTimeEdits[j].taskId, sessionTimeEdits[j].sessionNumber>> = x}}

\* the interval a session occupies once the log is overlaid (unique keys)
ProjectedInterval(d, s) ==
    IF EditsOf(d, KeyOf(s)) = {}
    THEN <<timeToMinutes(s.startTime), timeToMinutes(s.endTime)>>
    ELSE LET e == CHOOSE e \in EditsOf(d, KeyOf(s)) : TRUE
         IN  <<timeToMinutes(e.newStartTime), timeToMinutes(e.newEndTime)>>

Intersects(t, h, interval) ==
    CandidateStart(t) < interval[2] /\ CandidateEnd(t, h) > interval[1]

\* an active session other than x overlaps the candidate
SessionFails(d, t, h, x) ==
    \E s \in BaseSessions(d) :
        KeyOf(s) # x /\ IsActive(s) /\ Intersects(t, h, ProjectedInterval(d, s))

\* any session other than x, active or not, overlaps the candidate
AnySessionOverlaps(d, t, h, x) ==
    \E s \in BaseSessions(d) :
        KeyOf(s) # x /\ Intersects(t, h, ProjectedInterval(d, s))

EffectiveCommitments(d) ==
    {getCommitmentsForDate(d)[i] : i \in 1..Len(getCommitmentsForDate(d))}

CommitmentFails(d, t, h) ==
    \E c \in EffectiveCommitments(d) :
        Intersects(t, h, <<timeToMinutes(c.startTime), timeToMinutes(c.endTime)>>)

\* the kind of conflict the precedence order window, day, session, commitment asks for
ExpectedKind(d, t, h, x) ==
    IF WindowFails(t, h) THEN "Outside study window"
    ELSE IF WorkDayFails(d) THEN "Not a work day"
    ELSE IF SessionFails(d, t, h, x) THEN "Overlaps with session"
    ELSE IF CommitmentFails(d, t, h) THEN "Overlaps with"
    ELSE "none"

KindOf(result) == IF result.hasConflict THEN result.conflictsWith[1] ELSE "none"

\* number of checks the candidate fails
FailedChecks(d, t, h, x) ==
    (IF WindowFails(t, h) THEN 1 ELSE 0) + (IF WorkDayFails(d) THEN 1 ELSE 0)
    + (IF SessionFails(d, t, h, x) THEN 1 ELSE 0)
    + (IF CommitmentFails(d, t, h) THEN 1 ELSE 0)

----------------------------------------------------------------------------
(* Properties *)

\* C1: checkTimeConflict reports the earliest failing check in the order study
\* window, work day, session overlap, commitment overlap, and no conflict when
\* every check passes.
C1_FirstFailingCheckReported ==
    Returned("checkTimeConflict") =>
        KindOf(lastCall.result) =
            ExpectedKind(lastCall.args[1], lastCall.args[2], lastCall.args[3], lastCall.args[4])

\* A candidate on a non-work day that also overlaps a session and a commitment,
\* answered "Not a work day".
C1_Witness ==
    /\ Returned("checkTimeConflict")
    /\ ~WindowFails(lastCall.args[2], lastCall.args[3])
    /\ WorkDayFails(lastCall.args[1])
    /\ SessionFails(lastCall.args[1], lastCall.args[2], lastCall.args[3], lastCall.args[4])
    /\ CommitmentFails(lastCall.args[1], lastCall.args[2], lastCall.args[3])
    /\ KindOf(lastCall.result) = "Not a work day"

\* C2: a candidate starting before the study window start, or ending after the
\* study window end, gets a study-window conflict whatever else is booked.
C2_WindowConflictAlwaysReported ==
    (Returned("checkTimeConflict") /\ WindowFails(lastCall.args[2], lastCall.args[3])) =>
        /\ lastCall.result.hasConflict
        /\ lastCall.result.conflictsWith[1] = "Outside study window"

\* A candidate inside the window at its start and past the window end, on a day
\* with an overlapping session.
C2_Witness ==
    /\ Returned("checkTimeConflict")
    /\ CandidateStart(lastCall.args[2]) >= WindowStart
    /\ CandidateEnd(lastCall.args[2], lastCall.args[3]) > WindowEnd
    /\ SessionFails(lastCall.args[1], lastCall.args[2], lastCall.args[3], lastCall.args[4])
    /\ lastCall.result.conflictsWith[1] = "Outside study window"

\* the call checked session s of date d against its own slot
ChecksOwnSlot(d, s) ==
    /\ Returned("checkTimeConflict")
    /\ lastCall.args = <<d, s.startTime, s.allocatedHours, KeyOf(s)>>

NothingOverlaps(d, s) ==
    /\ ~AnySessionOverlaps(d, s.startTime, s.allocatedHours, KeyOf(s))
    /\ ~CommitmentFails(d, s.startTime, s.allocatedHours)

\* C3 as stated: a session that no other session or commitment overlaps passes
\* the check of its own slot.
C3_Original ==
    \A d \in Dates : \A s \in BaseSessions(d) :
        (ChecksOwnSlot(d, s) /\ NothingOverlaps(d, s)) => ~lastCall.result.hasConflict

\* C3 amended: a session on a work day, inside the study window, that no other
\* session or commitment overlaps passes the check of its own slot.
C3_OwnSlotIsFree ==
    \A d \in Dates : \A s \in BaseSessions(d) :
        (/\ ChecksOwnSlot(d, s)
         /\ NothingOverlaps(d, s)
         /\ ~WorkDayFails(d)
         /\ ~WindowFails(s.startTime, s.allocatedHours)) => ~lastCall.result.hasConflict

C3_Witness ==
    \E d \in Dates : \E s \in BaseSessions(d) :
        /\ ChecksOwnSlot(d, s)
        /\ NothingOverlaps(d, s)
        /\ ~WorkDayFails(d)
        /\ ~WindowFails(s.startTime, s.allocatedHours)
        /\ ~lastCall.result.hasConflict

\* a step in which editSessionTime is called and returns
EditStep == lastCall = Idle /\ lastCall'.op = "editSessionTime"

\* C4 as stated: on a non-work day every editSessionTime fails with the reason
\* "Not a work day" and stores no edit.
C4_Original ==
    [][(EditStep /\ WorkDayFails(lastCall'.args[1])) =>
          /\ lastCall'.result = [success |-> FALSE, error |-> <<"Not a work day">>]
          /\ UNCHANGED <<sessionTimeEdits, localStorage>>]_vars

\* C4 amended: on a non-work day every editSessionTime fails and stores no edit;
\* the reason is "Not a work day" when the new time lies inside the study window
\* and the study-window reason otherwise.
C4_NonWorkDayEditFails ==
    [][(EditStep /\ WorkDayFails(lastCall'.args[1])) =>
          /\ ~lastCall'.result.success
          /\ lastCall'.result.error[1] =
                (IF WindowFails(lastCall'.args[4], lastCall'.args[5])
                 THEN "Outside study window" ELSE "Not a work day")
          /\ UNCHANGED <<sessionTimeEdits, localStorage>>]_vars

\* An edit on a non-work day, inside the study window, refused with "Not a work day".
C4_Witness ==
    /\ Returned("editSessionTime")
    /\ WorkDayFails(lastCall.args[1])
    /\ ~WindowFails(lastCall.args[4], lastCall.args[5])
    /\ lastCall.result = [success |-> FALSE, error |-> <<"Not a work day">>]

\* C5: an editSessionTime whose time the conflict check rejects returns
\* success = false with the checker's reason and leaves the edit log and the
\* stored item as they were.
C5_RejectedEditChangesNothing ==
    [][(/\ EditStep
        /\ ExpectedKind(lastCall'.args[1], lastCall'.args[4], lastCall'.args[5],
                        <<lastCall'.args[2], lastCall'.args[3]>>) # "none") =>
          /\ lastCall'.result =
                [success |-> FALSE,
                 error |-> checkTimeConflict(lastCall'.args[1], lastCall'.args[4],
                                             lastCall'.args[5],
                                             <<lastCall'.args[2], lastCall'.args[3]>>,
                                             TRUE).conflictsWith]
          /\ UNCHANGED <<sessionTimeEdits, localStorage>>]_vars

\* A rejected edit of a session that has an edit in a log of two edits.
C5_Witness ==
    /\ Returned("editSessionTime")
    /\ ~lastCall.result.success
    /\ lastCall.result.error[1] = "Overlaps with session"
    /\ EditsOf(lastCall.args[1], <<lastCall.args[2], lastCall.args[3]>>) # {}
    /\ Len(sessionTimeEdits) = 2

\* C6: after a successful editSessionTime, getEditedSession of the edited session
\* starts at the new start and ends at the new start plus the duration.
C6_ProjectionRoundTrip ==
    (Returned("editSessionTime") /\ lastCall.result.success) =>
        \A s \in BaseSessions(lastCall.args[1]) :
            KeyOf(s) = <<lastCall.args[2], lastCall.args[3]>> =>
                /\ getEditedSession(s, lastCall.args[1]).startTime = lastCall.args[4]
                /\ timeToMinutes(getEditedSession(s, lastCall.args[1]).endTime) =
                      timeToMinutes(lastCall.args[4]) + DurationMinutes(lastCall.args[5])

\* A successful edit that replaced an earlier edit of the same session.
C6_Witness ==
    /\ Returned("editSessionTime")
    /\ lastCall.result.success
    /\ \E e \in EditsOf(lastCall.args[1], <<lastCall.args[2], lastCall.args[3]>>) :
          e.id[2] < e.editedAt

\* a step in which removeEdit is called and returns
RemoveStep == lastCall = Idle /\ lastCall'.op = "removeEdit"

\* the edits of other keys than <<d, x>>, in log order
OtherEdits(d, x) ==
    LET Other(e) == ~(e.planDate = d /\ <<e.taskId, e.sessionNumber>> = x)
    IN  SelectSeq(sessionTimeEdits, Other)

\* C7: removeEdit on a key that has an edit returns true, after it
\* getEditedSession returns the session as the base plan holds it, and the
\* edits of other keys are untouched.
C7_RemoveRestoresBase ==
    [][\A k \in SessionKeys :
          (/\ RemoveStep
           /\ lastCall'.args = k
           /\ EditsOf(k[1], <<k[2], k[3]>>) # {}) =>
             /\ lastCall'.result = TRUE
             /\ \A s \in BaseSessions(k[1]) :
                   KeyOf(s) = <<k[2], k[3]>> => getEditedSession(s, k[1])' = s
             /\ OtherEdits(k[1], <<k[2], k[3]>>)' = OtherEdits(k[1], <<k[2], k[3]>>)]_vars

\* removeEdit returned true after two successful edits, one of which remains.
C7_Witness ==
    /\ Returned("removeEdit")
    /\ lastCall.result = TRUE
    /\ now = 2
    /\ Len(sessionTimeEdits) >= 1
    /\ EditsOf(lastCall.args[1], <<lastCall.args[2], lastCall.args[3]>>) = {}

\* C8: at most three times are suggested, and each passes all four checks for
\* the same date, duration and excluded session.
C8_SuggestionsAreFree ==
    (Returned("checkTimeConflict") /\ lastCall.result.hasConflict) =>
        /\ Len(lastCall.result.suggestedTimes) <= 3
        /\ \A i \in 1..Len(lastCall.result.suggestedTimes) :
              ExpectedKind(lastCall.args[1], lastCall.result.suggestedTimes[i],
                           lastCall.args[3], lastCall.args[4]) = "none"

\* A session conflict answered with three suggestions, in a log holding an edit.
C8_Witness ==
    /\ Returned("checkTimeConflict")
    /\ lastCall.result.hasConflict
    /\ lastCall.result.conflictsWith[1] = "Overlaps with session"
    /\ Len(lastCall.result.suggestedTimes) = 3
    /\ Len(sessionTimeEdits) >= 1

UniqueKeys(edits) ==
    \A i, j \in 1..Len(edits) :
        i # j => <<edits[i].planDate, edits[i].taskId, edits[i].sessionNumber>> #
                 <<edits[j].planDate, edits[j].taskId, edits[j].sessionNumber>>

\* the new start and end times the log holds for key k
TimesOf(k) == {<<e.newStartTime, e.newEndTime>> : e \in EditsOf(k[1], <<k[2], k[3]>>)}

\* this step is a successful editSessionTime of key k
EditsKey(k) ==
    /\ EditStep
    /\ lastCall'.result.success
    /\ <<lastCall'.args[1], lastCall'.args[2], lastCall'.args[3]>> = k

\* C9: under editSessionTime, removeEdit and clearTemporaryEdits the log keeps at
\* most one edit per key; a successful editSessionTime leaves for its key
\* exactly the new start and end it computed, and until the next one the edit
\* of a key is only kept as it is or removed.
C9_OneLatestEditPerKey ==
    [][~(lastCall = Idle /\ lastCall'.op = "constructor") =>
          /\ UniqueKeys(sessionTimeEdits)
          /\ UniqueKeys(sessionTimeEdits')
          /\ \A k \in SessionKeys :
                IF EditsKey(k)
                THEN TimesOf(k)' =
                        {<<lastCall'.args[4],
                           minutesToTime(timeToMinutes(lastCall'.args[4])
                                         + DurationMinutes(lastCall'.args[5]))>>}
                ELSE TimesOf(k)' \subseteq TimesOf(k)]_vars

\* A successful edit replaced the earlier edit of its key with other times.
C9_Witness ==
    /\ Returned("editSessionTime")
    /\ lastCall.result.success
    /\ \E e \in EditsOf(lastCall.args[1], <<lastCall.args[2], lastCall.args[3]>>) :
          /\ e.id[2] < e.editedAt
          /\ e.newStartTime = lastCall.args[4]
          /\ e.isTemporary
    /\ Len(sessionTimeEdits) = 1

\* a mutating call has completed
MutationCompleted ==
    \/ Returned("editSessionTime") /\ lastCall.result.success
    \/ Returned("removeEdit") /\ lastCall.result = TRUE
    \/ Returned("clearTemporaryEdits")

\* C10: after every completed mutating call the stored item is the in-memory
\* log, so that an editor constructed next starts with that log.
C10_StoreEqualsLog ==
    MutationCompleted =>
        /\ localStorage = JSONstringify(sessionTimeEdits)
        /\ loadEdits(localStorage) = sessionTimeEdits

\* the edits of a log flagged temporary
TemporaryEdits(edits) == {edits[i] : i \in {j \in 1..Len(edits) : edits[j].isTemporary}}

\* C11: after a plan regeneration event (the view invoked onGenerateStudyPlan)
\* no edit flagged temporary remains in the edit log.
C11_RegenerationClearsTemporary ==
    Returned("onGenerateStudyPlan") => TemporaryEdits(sessionTimeEdits) = {}

\* a step in which clearTemporaryEdits is called and returns
ClearStep == lastCall = Idle /\ lastCall'.op = "clearTemporaryEdits"

\* positions of the edits not flagged temporary, in log order
PermanentPositions(edits) == {i \in 1..Len(edits) : ~edits[i].isTemporary}

\* the edits written by editSessionTime since the editor was built
CreatedByEditSessionTime(edits) ==
    {edits[i] : i \in {j \in 1..Len(edits) : edits[j].editedAt >= 0}}

\* C12: clearTemporaryEdits leaves no edit flagged temporary, keeps every edit
\* not flagged temporary as it was and in the same relative order, and leaves
\* no edit that editSessionTime wrote.
C12_ClearKeepsPermanentOnly ==
    [][ClearStep =>
          /\ TemporaryEdits(sessionTimeEdits') = {}
          /\ CreatedByEditSessionTime(sessionTimeEdits') = {}
          /\ Len(sessionTimeEdits') = Cardinality(PermanentPositions(sessionTimeEdits))
          /\ \A i \in 1..Len(sessionTimeEdits') :
                \E j \in PermanentPositions(sessionTimeEdits) :
                    /\ sessionTimeEdits'[i] = sessionTimeEdits[j]
                    /\ Cardinality({m \in PermanentPositions(sessionTimeEdits) : m < j})
                          = i - 1]_vars

\* clearTemporaryEdits ran on a log of a rewritten stored edit, a stored edit and
\* a new edit: only the stored edit is left.
C12_Witness ==
    /\ Returned("clearTemporaryEdits")
    /\ now = 2
    /\ sessionTimeEdits = <<StoredEditSat>>

\* the plans hold a session with key x on date d
Located(d, x) == \E s \in BaseSessions(d) : KeyOf(s) = x

\* C13 as stated: an editSessionTime whose target session is not in the plans
\* fails with "Session not found" and leaves the log and the stored item as
\* they were.
C13_Original ==
    [][(EditStep /\ ~Located(lastCall'.args[1], <<lastCall'.args[2], lastCall'.args[3]>>)) =>
          /\ lastCall'.result = [success |-> FALSE, error |-> <<"Session not found">>]
          /\ UNCHANGED <<sessionTimeEdits, localStorage>>]_vars

\* C13 amended: an editSessionTime whose target session is not in the plans
\* fails and leaves the log and the stored item as they were; the error is
\* "Session not found" when the new time passes the conflict check, and the
\* checker's reason otherwise.
C13_MissingSessionEditFails ==
    [][(EditStep /\ ~Located(lastCall'.args[1], <<lastCall'.args[2], lastCall'.args[3]>>)) =>
          /\ DOMAIN lastCall'.result = {"success", "error"}
          /\ ~lastCall'.result.success
          /\ LET kind == ExpectedKind(lastCall'.args[1], lastCall'.args[4], lastCall'.args[5],
                                      <<lastCall'.args[2], lastCall'.args[3]>>)
             IN  lastCall'.result.error[1] =
                    (IF kind = "none" THEN "Session not found" ELSE kind)
          /\ UNCHANGED <<sessionTimeEdits, localStorage>>]_vars

\* An edit of a session number the plan of the date does not hold, at a free
\* time, refused with "Session not found" while the log holds an edit.
C13_Witness ==
    /\ Returned("editSessionTime")
    /\ BaseSessions(lastCall.args[1]) # {}
    /\ ~Located(lastCall.args[1], <<lastCall.args[2], lastCall.args[3]>>)
    /\ lastCall.result = [success |-> FALSE, error |-> <<"Session not found">>]
    /\ Len(sessionTimeEdits) >= 1

\* a step in which checkTimeConflict is called and returns
CheckStep == lastCall = Idle /\ lastCall'.op = "checkTimeConflict"

\* the reasons naming a commitment of date d that overlaps the candidate
CommitmentReasons(d, t, h) ==
    {<<"Overlaps with", c.title, c.startTime, c.endTime>> :
        c \in {e \in EffectiveCommitments(d) :
                  Intersects(t, h, <<timeToMinutes(e.startTime), timeToMinutes(e.endTime)>>)}}

\* the candidate fails the commitment check and no check made before it
OnlyCommitmentFails(d, t, h, x) ==
    /\ ~WindowFails(t, h)
    /\ ~WorkDayFails(d)
    /\ ~SessionFails(d, t, h, x)
    /\ CommitmentFails(d, t, h)

\* C14: for a candidate inside the study window, on a work day, overlapping no
\* other active session but overlapping an effective commitment of the date,
\* checkTimeConflict reports a conflict naming the title and the time range of
\* such a commitment, and editSessionTime to that time fails with that reason
\* and stores no edit.
C14_CommitmentOverlapReported ==
    [][/\ (CheckStep /\ OnlyCommitmentFails(lastCall'.args[1], lastCall'.args[2],
                                             lastCall'.args[3], lastCall'.args[4])) =>
            /\ lastCall'.result.hasConflict
            /\ lastCall'.result.conflictsWith \in
                  CommitmentReasons(lastCall'.args[1], lastCall'.args[2], lastCall'.args[3])
       /\ (EditStep /\ OnlyCommitmentFails(lastCall'.args[1], lastCall'.args[4],
                                            lastCall'.args[5],
                                            <<lastCall'.args[2], lastCall'.args[3]>>)) =>
            /\ ~lastCall'.result.success
            /\ lastCall'.result.error \in
                  CommitmentReasons(lastCall'.args[1], lastCall'.args[4], lastCall'.args[5])
            /\ UNCHANGED <<sessionTimeEdits, localStorage>>]_vars

\* T1#1 of Wednesday edited to 09:30 for one hour, refused for "Gym" 10:00-11:00.
C14_Witness ==
    /\ Returned("editSessionTime")
    /\ lastCall.args = <<Wed, "T1", 1, <<9, 30>>, OneHour>>
    /\ lastCall.result =
          [success |-> FALSE, error |-> <<"Overlaps with", "Gym", <<10, 0>>, <<11, 0>>>>]

\* date d holds exactly the two sessions a and b, of identical allocated hours,
\* and no commitment
TwoSessionsOnly(d, a, b) ==
    /\ a # b
    /\ BaseSessions(d) = {a, b}
    /\ a.allocatedHours = b.allocatedHours
    /\ EffectiveCommitments(d) = {}

\* the call checked a's move to the start of b, a excluded
ChecksMoveOnto(d, a, b) ==
    /\ Returned("checkTimeConflict")
    /\ lastCall.args = <<d, getEditedSession(b, d).startTime, a.allocatedHours, KeyOf(a)>>

NamesSession(result, d, b) ==
    /\ result.hasConflict
    /\ result.conflictsWith =
          <<"Overlaps with session", b.taskId, getEditedSession(b, d).startTime,
            getEditedSession(b, d).endTime>>

\* C15 as stated: with two sessions a and b of identical hours alone on a date,
\* the check of a's move to b's start, a excluded, reports a conflict naming b.
C15_Original ==
    \A d \in Dates : \A a, b \in BaseSessions(d) :
        (TwoSessionsOnly(d, a, b) /\ ChecksMoveOnto(d, a, b)) =>
            NamesSession(lastCall.result, d, b)

\* C15 amended: with two sessions a and b of identical hours alone on a work
\* day, b neither skipped nor done and inside the study window, the check of
\* a's move to b's start, a excluded, reports a conflict naming b.
C15_MoveOntoActiveSessionConflicts ==
    \A d \in Dates : \A a, b \in BaseSessions(d) :
        (/\ TwoSessionsOnly(d, a, b)
         /\ ChecksMoveOnto(d, a, b)
         /\ IsActive(b)
         /\ ~WorkDayFails(d)
         /\ ~WindowFails(getEditedSession(b, d).startTime, b.allocatedHours)) =>
            NamesSession(lastCall.result, d, b)

C15_Witness ==
    \E d \in Dates : \E a, b \in BaseSessions(d) :
        /\ TwoSessionsOnly(d, a, b)
        /\ ChecksMoveOnto(d, a, b)
        /\ IsActive(b)
        /\ NamesSession(lastCall.result, d, b)

\* the sessions of the plans with the log overlaid, as the view renders them
ProjectedSessions ==
    UNION {{applyEditsToPlans(studyPlans)[p].plannedTasks[i] :
               i \in 1..Len(studyPlans[p].plannedTasks)} : p \in 1..Len(studyPlans)}

\* C16: every session of the projected plans ends at its start plus its
\* allocated hours, whatever durations the editSessionTime calls were given.
C16_EndIsStartPlusAllocated ==
    \A s \in ProjectedSessions :
        timeToMinutes(s.endTime) = timeToMinutes(s.startTime) + DurationMinutes(s.allocatedHours)

\* C17: checkTimeConflict leaves the edit log, the stored item, the plans and
\* the commitments as they were, and the same call made again in the state it
\* returned in gives the same result.
C17_CheckIsPureAndRepeatable ==
    /\ [][CheckStep =>
             UNCHANGED <<sessionTimeEdits, localStorage, studyPlans, fixedCommitments>>]_vars
    /\ [](Returned("checkTimeConflict") =>
             lastCall.result = checkTimeConflict(lastCall.args[1], lastCall.args[2],
                                                 lastCall.args[3], lastCall.args[4], TRUE))

\* A check that excluded a session holding an edit and answered with suggestions.
C17_Witness ==
    /\ Returned("checkTimeConflict")
    /\ EditsOf(lastCall.args[1], lastCall.args[4]) # {}
    /\ lastCall.result.hasConflict
    /\ Len(lastCall.result.suggestedTimes) >= 1

\* this step is a successful editSessionTime
EditSucceeds == EditStep /\ lastCall'.result.success

\* C18 as stated: the edit a successful editSessionTime stores has for
\* originalStartTime the start the session had right before the edit, the log
\* overlaid.
C18_Original ==
    [][\A k \in SessionKeys :
          (EditSucceeds /\ <<lastCall'.args[1], lastCall'.args[2], lastCall'.args[3]>> = k) =>
             \A s \in BaseSessions(k[1]) :
                KeyOf(s) = <<k[2], k[3]>> =>
                   {e.originalStartTime : e \in EditsOf(k[1], <<k[2], k[3]>>)'} =
                      {getEditedSession(s, k[1]).startTime}]_vars

\* C18 amended: the edit a successful editSessionTime stores has for
\* originalStartTime the start the plans hold for the session, also when it
\* replaces an earlier edit of the key.
C18_OriginalIsPlanStart ==
    [][\A k \in SessionKeys :
          (EditSucceeds /\ <<lastCall'.args[1], lastCall'.args[2], lastCall'.args[3]>> = k) =>
             \A s \in BaseSessions(k[1]) :
                KeyOf(s) = <<k[2], k[3]>> =>
                   {e.originalStartTime : e \in EditsOf(k[1], <<k[2], k[3]>>)'} =
                      {s.startTime}]_vars

\* A successful edit replaced an edit that had moved the session off its planned
\* start; the stored originalStartTime is the planned start.
C18_Witness ==
    /\ Returned("editSessionTime")
    /\ lastCall.result.success
    /\ now = 2
    /\ \E e \in EditsOf(lastCall.args[1], <<lastCall.args[2], lastCall.args[3]>>) :
          /\ e.id[2] < e.editedAt
          /\ e.id[2] >= 0
          /\ e.newStartTime # e.originalStartTime
          /\ \E s \in BaseSessions(lastCall.args[1]) :
                KeyOf(s) = <<lastCall.args[2], lastCall.args[3]>>
                /\ s.startTime = e.originalStartTime

\* the half-hour slots of the study window a session of h hours fits in
GridSlots(h) ==
    {m \in WindowStart..(WindowEnd - DurationMinutes(h)) : (m - WindowStart) % 30 = 0}

\* the slots among them that pass the four checks
FreeSlots(d, h, x) ==
    {m \in GridSlots(h) : ExpectedKind(d, minutesToTime(m), h, x) = "none"}

\* suggestions are the earliest free slots, at most three, in ascending order
EarliestFreeSlots(suggestions, d, h, x) ==
    /\ Len(suggestions) =
          (IF Cardinality(FreeSlots(d, h, x)) < 3 THEN Cardinality(FreeSlots(d, h, x)) ELSE 3)
    /\ \A i \in 1..Len(suggestions) :
          /\ timeToMinutes(suggestions[i]) \in FreeSlots(d, h, x)
          /\ Cardinality({m \in FreeSlots(d, h, x) : m < timeToMinutes(suggestions[i])}) = i - 1

\* C19 as stated: a study-window conflict and a not-a-work-day conflict carry an
\* empty list of suggested times.
C19_Original ==
    (/\ Returned("checkTimeConflict")
     /\ KindOf(lastCall.result) \in {"Outside study window", "Not a work day"}) =>
        lastCall.result.suggestedTimes = <<>>

\* C19 amended: a not-a-work-day conflict carries an empty list of suggested
\* times; a study-window conflict carries, like a session-overlap and a
\* commitment-overlap conflict, the earliest free half-hour slots of the study
\* window, at most three.
C19_SuggestionsByKind ==
    (Returned("checkTimeConflict") /\ lastCall.result.hasConflict) =>
        IF KindOf(lastCall.result) = "Not a work day"
        THEN lastCall.result.suggestedTimes = <<>>
        ELSE EarliestFreeSlots(lastCall.result.suggestedTimes, lastCall.args[1],
                               lastCall.args[3], lastCall.args[4])

\* A study-window conflict answered with suggested times, the first slot of the
\* window among them.
C19_Witness ==
    /\ Returned("checkTimeConflict")
    /\ KindOf(lastCall.result) = "Outside study window"
    /\ Len(lastCall.result.suggestedTimes) >= 2
    /\ lastCall.result.suggestedTimes[1] = minutesToTime(WindowStart)

\* a step in which the redistribution is called and returns
RedistributeStep == lastCall = Idle /\ lastCall'.op = "redistributeMissedSessionsEnhanced"

\* the missed sessions of the plans, with their dates
MissedItems ==
    {item \in UNION {{[date |-> Calendar[i], session |-> s] : s \in BaseSessions(Calendar[i])} :
                        i \in 1..Len(Calendar)} : item.session.status = "missed"}

\* no day of the window after date d holds a slot of the grid that passes the
\* four checks for session s
NoSlotInWindow(d, s, maxDays) ==
    \A i \in (DayIndex(d) + 1)..(DayIndex(d) + maxDays) :
        i <= Len(Calendar) => FreeSlots(Calendar[i], s.allocatedHours, KeyOf(s)) = {}

\* the entries of the result that report session s of date d
FailuresOf(result, item) ==
    {i \in 1..Len(result.failedSessions) : result.failedSessions[i].session = item.session}

MovesOf(result, item) ==
    {i \in 1..Len(result.redistributedSessions) :
        /\ result.redistributedSessions[i].taskId = item.session.taskId
        /\ result.redistributedSessions[i].sessionNumber = item.session.sessionNumber
        /\ result.redistributedSessions[i].originalDate = item.date}

\* C20: a missed session for which the window holds no available slot is in
\* failedSessions with a non-empty reason, is not among the sessions moved nor
\* counted in totalSessionsMoved, and keeps the status missed.
C20_UnplacedSessionFails ==
    [][RedistributeStep =>
          /\ lastCall'.result.totalSessionsMoved = Len(lastCall'.result.redistributedSessions)
          /\ UNCHANGED studyPlans
          /\ \A item \in MissedItems :
                NoSlotInWindow(item.date, item.session,
                               lastCall'.args[1].maxRedistributionDays) =>
                   /\ Cardinality(FailuresOf(lastCall'.result, item)) = 1
                   /\ \A i \in FailuresOf(lastCall'.result, item) :
                         /\ lastCall'.result.failedSessions[i].reason # <<>>
                         /\ lastCall'.result.failedSessions[i].session.status = "missed"
                   /\ MovesOf(lastCall'.result, item) = {}]_vars

\* A redistribution that moved one missed session and failed another for which
\* the one day of the window holds no slot.
C20_Witness ==
    /\ Returned("redistributeMissedSessionsEnhanced")
    /\ lastCall.result.totalSessionsMoved = 1
    /\ Len(lastCall.result.failedSessions) = 1
    /\ \E item \in MissedItems :
          /\ NoSlotInWindow(item.date, item.session, lastCall.args[1].maxRedistributionDays)
          /\ FreeSlots(Calendar[DayIndex(item.date) + 1], HalfHour, KeyOf(item.session)) # {}
          /\ FailuresOf(lastCall.result, item) # {}

\* the start and end a session has once its edit, if any, is applied
EditedTimes(d, s) ==
    IF EditsOf(d, KeyOf(s)) = {} THEN <<s.startTime, s.endTime>>
    ELSE LET e == CHOOSE e \in EditsOf(d, KeyOf(s)) : TRUE
         IN  <<e.newStartTime, e.newEndTime>>

\* the sessions of date d the session check compares the candidate with
ComparedSessions(d, x) == {s \in BaseSessions(d) : KeyOf(s) # x /\ IsActive(s)}

\* the reasons naming a compared session whose edited time the candidate overlaps
SessionReasons(d, t, h, x) ==
    {<<"Overlaps with session", s.taskId, EditedTimes(d, s)[1], EditedTimes(d, s)[2]>> :
        s \in {c \in ComparedSessions(d, x) :
                  Intersects(t, h, <<timeToMinutes(EditedTimes(d, c)[1]),
                                     timeToMinutes(EditedTimes(d, c)[2])>>)}}

\* C21: for a candidate that passes the window and the work-day checks, a
\* session conflict is reported exactly when the candidate overlaps the edited
\* time of a session that is not the excluded one, not skipped and not done,
\* and the reason names such a session with its edited time.
C21_SessionCheckUsesEditedTimes ==
    (/\ Returned("checkTimeConflict")
     /\ ~WindowFails(lastCall.args[2], lastCall.args[3])
     /\ ~WorkDayFails(lastCall.args[1])) =>
        IF SessionReasons(lastCall.args[1], lastCall.args[2], lastCall.args[3],
                          lastCall.args[4]) = {}
        THEN KindOf(lastCall.result) # "Overlaps with session"
        ELSE /\ lastCall.result.hasConflict
             /\ lastCall.result.conflictsWith \in
                   SessionReasons(lastCall.args[1], lastCall.args[2], lastCall.args[3],
                                  lastCall.args[4])

\* A candidate in the slot an edited session left: the session check passes it,
\* although it overlaps that session's time in the plan.
C21_Witness ==
    /\ Returned("checkTimeConflict")
    /\ ~lastCall.result.hasConflict
    /\ \E s \in ComparedSessions(lastCall.args[1], lastCall.args[4]) :
          /\ EditsOf(lastCall.args[1], KeyOf(s)) # {}
          /\ Intersects(lastCall.args[2], lastCall.args[3],
                        <<timeToMinutes(s.startTime), timeToMinutes(s.endTime)>>)

\* commitment c occurs on date d
OccursOn(c, d) ==
    /\ d \notin c.deletedOccurrences
    /\ \/ c.recurring /\ getDay(d) \in c.daysOfWeek
       \/ ~c.recurring /\ d \in c.specificDates

\* commitment c with the override of date d laid over the listed fields
WithOverride(c, d, fields) ==
    IF d \in DOMAIN c.modifiedOccurrences
    THEN [f \in DOMAIN c |->
            IF f \in fields /\ f \in DOMAIN c.modifiedOccurrences[d]
            THEN c.modifiedOccurrences[d][f] ELSE c[f]]
    ELSE c

\* positions in the commitment list of the commitments occurring on d
OccurringPositions(d) == {i \in 1..Len(fixedCommitments) : OccursOn(fixedCommitments[i], d)}

\* the sequence result holds, in list order, the commitments occurring on d,
\* each with its override laid over the listed fields
IsEffectiveList(result, d, fields) ==
    /\ Len(result) = Cardinality(OccurringPositions(d))
    /\ \A i \in OccurringPositions(d) :
          result[Cardinality({j \in OccurringPositions(d) : j <= i})] =
             WithOverride(fixedCommitments[i], d, fields)

\* C22: getCommitmentsForDate returns exactly the commitments not deleted for
\* the date that recur on its weekday or list it in specificDates, each with
\* the override of the date laid over title, start, end and type.
C22_EffectiveCommitments ==
    Returned("checkTimeConflict") =>
        IsEffectiveList(getCommitmentsForDate(lastCall.args[1]), lastCall.args[1],
                        {"title", "startTime", "endTime", "type"})

\* the commitments of date d that the candidate overlaps, as getCommitmentsForDate
\* returns them
OverlappedCommitments(d, t, h) ==
    {c \in EffectiveCommitments(d) :
        Intersects(t, h, <<timeToMinutes(c.startTime), timeToMinutes(c.endTime)>>)}

ReasonOf(c) == <<"Overlaps with", c.title, c.startTime, c.endTime>>

\* position in the commitment list of the commitment with the id of c
ListPosition(c) == CHOOSE i \in 1..Len(fixedCommitments) : fixedCommitments[i].id = c.id

SortedByStart(commitments) ==
    \A i, j \in 1..Len(commitments) :
        i < j => timeToMinutes(commitments[i].startTime) <= timeToMinutes(commitments[j].startTime)

\* C23 as stated: the effective commitments of the date are sorted by start
\* time, and a commitment conflict names an overlapped commitment of earliest
\* start.
C23_Original ==
    Returned("checkTimeConflict") =>
        /\ SortedByStart(getCommitmentsForDate(lastCall.args[1]))
        /\ KindOf(lastCall.result) = "Overlaps with" =>
              \E c \in OverlappedCommitments(lastCall.args[1], lastCall.args[2], lastCall.args[3]) :
                 /\ lastCall.result.conflictsWith = ReasonOf(c)
                 /\ \A o \in OverlappedCommitments(lastCall.args[1], lastCall.args[2],
                                                    lastCall.args[3]) :
                       timeToMinutes(c.startTime) <= timeToMinutes(o.startTime)

\* C23 amended: the effective commitments of the date are in the order of the
\* commitment list, and a commitment conflict names the overlapped commitment
\* that comes first in that list.
C23_FirstInListOrderReported ==
    Returned("checkTimeConflict") =>
        /\ \A i, j \in 1..Len(getCommitmentsForDate(lastCall.args[1])) :
              i < j => ListPosition(getCommitmentsForDate(lastCall.args[1])[i])
                         < ListPosition(getCommitmentsForDate(lastCall.args[1])[j])
        /\ KindOf(lastCall.result) = "Overlaps with" =>
              \E c \in OverlappedCommitments(lastCall.args[1], lastCall.args[2], lastCall.args[3]) :
                 /\ lastCall.result.conflictsWith = ReasonOf(c)
                 /\ \A o \in OverlappedCommitments(lastCall.args[1], lastCall.args[2],
                                                    lastCall.args[3]) :
                       ListPosition(c) <= ListPosition(o)

\* A candidate overlapping two commitments: the one named comes first in the
\* list and starts later than the other.
C23_Witness ==
    /\ Returned("checkTimeConflict")
    /\ KindOf(lastCall.result) = "Overlaps with"
    /\ \E c, o \in OverlappedCommitments(lastCall.args[1], lastCall.args[2], lastCall.args[3]) :
          /\ lastCall.result.conflictsWith = ReasonOf(c)
          /\ ListPosition(c) < ListPosition(o)
          /\ timeToMinutes(c.startTime) > timeToMinutes(o.startTime)

\* the start minutes of a list of suggested times
SuggestedMinutes(suggestions) == {timeToMinutes(suggestions[i]) : i \in 1..Len(suggestions)}

\* the half-hour slots the code's checker accepts for the date, the duration
\* and the excluded session
AcceptedSlots(d, h, x) ==
    {m \in GridSlots(h) : ~checkTimeConflict(d, minutesToTime(m), h, x, FALSE).hasConflict}

\* C24: for the date, the duration and the excluded session of any call of the
\* checker, generateSuggestedTimes returns at most three slots of the
\* half-hour grid of the study window that the checker accepts, in ascending
\* order; no accepted slot earlier than the last one returned is left out, and
\* fewer than three are returned only when the grid has no other accepted slot.
C24_SuggestionsAreEarliestFree ==
    Returned("checkTimeConflict") =>
        LET suggestions ==
                generateSuggestedTimes(lastCall.args[1], lastCall.args[3], lastCall.args[4])
            accepted == AcceptedSlots(lastCall.args[1], lastCall.args[3], lastCall.args[4])
        IN  /\ Len(suggestions) <= 3
            /\ \A i, j \in 1..Len(suggestions) :
                  i < j => timeToMinutes(suggestions[i]) < timeToMinutes(suggestions[j])
            /\ SuggestedMinutes(suggestions) \subseteq accepted
            /\ \A m \in accepted :
                  (\E n \in SuggestedMinutes(suggestions) : m < n) =>
                      m \in SuggestedMinutes(suggestions)
            /\ Len(suggestions) < 3 => accepted \subseteq SuggestedMinutes(suggestions)
            /\ lastCall.result.hasConflict => lastCall.result.suggestedTimes = suggestions

\* A conflict answered with three suggestions that skip an occupied slot and
\* end with the last slot the session fits in.
C24_Witness ==
    /\ Returned("checkTimeConflict")
    /\ lastCall.result.hasConflict
    /\ Len(lastCall.result.suggestedTimes) = 3
    /\ timeToMinutes(lastCall.result.suggestedTimes[3]) =
          WindowEnd - DurationMinutes(lastCall.args[3])
    /\ timeToMinutes(lastCall.result.suggestedTimes[3]) >
          timeToMinutes(lastCall.result.suggestedTimes[2]) + 30
\* the minutes of the day both the candidate and the interval cover
SharedMinutes(t, h, interval) ==
    {m \in CandidateStart(t)..(CandidateEnd(t, h) - 1) : interval[1] <= m /\ m < interval[2]}

\* the intervals the candidate is compared with: the edited times of the
\* compared sessions and the effective commitments of the date
BookedIntervals(d, x) ==
    {<<timeToMinutes(EditedTimes(d, s)[1]), timeToMinutes(EditedTimes(d, s)[2])>> :
        s \in ComparedSessions(d, x)}
    \cup {<<timeToMinutes(c.startTime), timeToMinutes(c.endTime)>> : c \in EffectiveCommitments(d)}

\* the candidate touches the window bounds or a booked interval
Touches(d, t, h, x) ==
    \/ CandidateStart(t) = WindowStart
    \/ CandidateEnd(t, h) = WindowEnd
    \/ \E interval \in BookedIntervals(d, x) :
          CandidateEnd(t, h) = interval[1] \/ CandidateStart(t) = interval[2]

\* C25: a candidate on a work day that starts no earlier than the window
\* start, ends no later than the window end and shares no minute with a
\* compared session or a commitment has no conflict, however many of them it
\* touches; and a reported overlap names an interval that shares a minute with
\* the candidate.
C25_TouchingIsNoConflict ==
    Returned("checkTimeConflict") =>
        /\ (/\ Touches(lastCall.args[1], lastCall.args[2], lastCall.args[3], lastCall.args[4])
            /\ CandidateStart(lastCall.args[2]) >= WindowStart
            /\ CandidateEnd(lastCall.args[2], lastCall.args[3]) <= WindowEnd
            /\ ~WorkDayFails(lastCall.args[1])
            /\ \A interval \in BookedIntervals(lastCall.args[1], lastCall.args[4]) :
                  SharedMinutes(lastCall.args[2], lastCall.args[3], interval) = {})
              => ~lastCall.result.hasConflict
        /\ KindOf(lastCall.result) \in {"Overlaps with session", "Overlaps with"} =>
              SharedMinutes(lastCall.args[2], lastCall.args[3],
                            <<timeToMinutes(lastCall.result.conflictsWith[3]),
                              timeToMinutes(lastCall.result.conflictsWith[4])>>) # {}

\* A candidate that starts at the window start and ends when a commitment
\* starts, found free of conflicts.
C25_Witness ==
    /\ Returned("checkTimeConflict")
    /\ ~lastCall.result.hasConflict
    /\ CandidateStart(lastCall.args[2]) = WindowStart
    /\ \E c \in EffectiveCommitments(lastCall.args[1]) :
          CandidateEnd(lastCall.args[2], lastCall.args[3]) = timeToMinutes(c.startTime)
\* two sessions of a projected plan overlap
SessionsOverlap(s1, s2) ==
    /\ timeToMinutes(s1.startTime) < timeToMinutes(s2.endTime)
    /\ timeToMinutes(s2.startTime) < timeToMinutes(s1.endTime)

\* no two active sessions of a plan overlap in the result of applyEditsToPlans
NoActiveOverlap ==
    \A p \in 1..Len(studyPlans) :
        \A i, j \in 1..Len(studyPlans[p].plannedTasks) :
            (/\ i # j
             /\ IsActive(applyEditsToPlans(studyPlans)[p].plannedTasks[i])
             /\ IsActive(applyEditsToPlans(studyPlans)[p].plannedTasks[j])) =>
                ~SessionsOverlap(applyEditsToPlans(studyPlans)[p].plannedTasks[i],
                                 applyEditsToPlans(studyPlans)[p].plannedTasks[j])

\* this step is a successful editSessionTime of session k that passes the
\* session's allocated hours as duration
OwnDurationEdit(k) ==
    /\ EditSucceeds
    /\ <<lastCall'.args[1], lastCall'.args[2], lastCall'.args[3]>> = k
    /\ \E s \in BaseSessions(k[1]) :
          KeyOf(s) = <<k[2], k[3]>> /\ s.allocatedHours = lastCall'.args[5]

\* C26: with an empty log no two active sessions of a date overlap in the
\* projected plans, and a successful editSessionTime that passes the session's
\* allocated hours keeps it so; hence it is so after any sequence of such
\* edits from an empty log.
C26_OwnDurationEditsKeepNoOverlap ==
    /\ [](sessionTimeEdits = <<>> => NoActiveOverlap)
    /\ [][\A k \in SessionKeys :
             (NoActiveOverlap /\ OwnDurationEdit(k)) => NoActiveOverlap']_vars

\* Two edits with the sessions' allocated hours, the second checked against
\* the time the first one moved its session to; nothing overlaps.
C26_Witness ==
    /\ Returned("editSessionTime")
    /\ lastCall.result.success
    /\ Len(sessionTimeEdits) = 2
    /\ \A i \in 1..2 : \E s \in BaseSessions(sessionTimeEdits[i].planDate) :
          /\ KeyOf(s) = <<sessionTimeEdits[i].taskId, sessionTimeEdits[i].sessionNumber>>
          /\ timeToMinutes(sessionTimeEdits[i].newEndTime) =
                timeToMinutes(sessionTimeEdits[i].newStartTime) + DurationMinutes(s.allocatedHours)
    /\ \E s \in ComparedSessions(lastCall.args[1], <<lastCall.args[2], lastCall.args[3]>>) :
          \E e \in EditsOf(lastCall.args[1], KeyOf(s)) : e.newStartTime # s.startTime
    /\ NoActiveOverlap
\* C27: a removeEdit or a clearTemporaryEdits made when no two active sessions
\* of a date overlap in the projected plans leaves no two of them overlapping.
C27_RevertKeepsNoOverlap ==
    [][((RemoveStep \/ ClearStep) /\ NoActiveOverlap) => NoActiveOverlap']_vars

\* edit e lies on a work day, inside the study window and off the effective
\* commitments of its plan date
WithinConstraints(e) ==
    /\ getDay(e.planDate) \in settings.workDays
    /\ timeToMinutes(e.newStartTime) >= WindowStart
    /\ timeToMinutes(e.newEndTime) <= WindowEnd
    /\ \A c \in EffectiveCommitments(e.planDate) :
          \/ timeToMinutes(e.newEndTime) <= timeToMinutes(c.startTime)
          \/ timeToMinutes(e.newStartTime) >= timeToMinutes(c.endTime)

\* C28: every edit of the log that editSessionTime created lies on a work day,
\* starts at or after the study window start, ends at or before the study
\* window end and overlaps no effective commitment of its plan date.
C28_CreatedEditsWithinConstraints ==
    \A e \in CreatedByEditSessionTime(sessionTimeEdits) : WithinConstraints(e)

\* Two edits created by editSessionTime, one ending at the study window end
\* and one starting when a commitment ends.
C28_Witness ==
    /\ Returned("editSessionTime")
    /\ lastCall.result.success
    /\ \E e1, e2 \in CreatedByEditSessionTime(sessionTimeEdits) :
          /\ e1 # e2
          /\ timeToMinutes(e1.newEndTime) = WindowEnd
          /\ \E c \in EffectiveCommitments(e2.planDate) :
                timeToMinutes(e2.newStartTime) = timeToMinutes(c.endTime)

\* the sessions the view displays on date d: applyEditsToPlans of the studyPlans prop
DisplayedSessions(d) ==
    UNION {{applyEditsToPlans(displayedPlans)[p].plannedTasks[i] :
               i \in 1..Len(displayedPlans[p].plannedTasks)} :
              p \in {q \in 1..Len(displayedPlans) : displayedPlans[q].date = d}}

\* C29: an edit accepted through the view's editor overlaps no other active
\* session of its date in the plans the view displays, nor a commitment of
\* that date, also after the parent has replaced the plans.
C29_AcceptedEditFitsDisplayedPlans ==
    (Returned("handleSave") /\ lastCall.result.success) =>
        /\ \A s \in DisplayedSessions(lastCall.args[1]) :
              (KeyOf(s) # <<lastCall.args[2], lastCall.args[3]>> /\ IsActive(s)) =>
                 ~Intersects(lastCall.args[4], lastCall.args[5],
                             <<timeToMinutes(s.startTime), timeToMinutes(s.endTime)>>)
        /\ ~CommitmentFails(lastCall.args[1], lastCall.args[4], lastCall.args[5])

\* this step is a click on "Save Changes"
SaveStep == lastCall = Idle /\ lastCall'.op = "handleSave"

\* the edit log holds for the modal's session exactly one edit, to the time entered
StoresEnteredTime ==
    {sessionTimeEdits'[i].newStartTime :
        i \in {j \in 1..Len(sessionTimeEdits') :
                  /\ sessionTimeEdits'[j].planDate = modal.planDate
                  /\ <<sessionTimeEdits'[j].taskId, sessionTimeEdits'[j].sessionNumber>> =
                        KeyOf(modal.session)}} =
        {modal.newStartTime}

\* C30: a save happens only when the cached check shows no conflict and a time
\* is entered; it stores the edit and calls onSave and onClose exactly when
\* editSessionTime accepts the time entered, and otherwise leaves the log, the
\* stored item and the modal as they were and calls neither; the log changes
\* only if the time entered passes the conflict check made at the save.
C30_SaveStoresOnlyCheckedTimes ==
    [][SaveStep =>
          /\ ~modal.conflictCheck.hasConflict
          /\ modal.newStartTime # EmptyTime
          /\ (sessionTimeEdits' # sessionTimeEdits \/ localStorage' # localStorage) =>
                ~checkConflict(modal.planDate, modal.session, modal.newStartTime).hasConflict
          /\ IF lastCall'.result.success
             THEN /\ StoresEnteredTime
                  /\ lastCall'.onSave /\ lastCall'.onClose
                  /\ ~modal'.isOpen
             ELSE /\ UNCHANGED <<sessionTimeEdits, localStorage, modal>>
                  /\ ~lastCall'.onSave /\ ~lastCall'.onClose]_vars

\* A save the editor rejected although the cached check showed no conflict:
\* the modal is still open and no edit of its session is in the log.
C30_Witness ==
    /\ Returned("handleSave")
    /\ ~lastCall.result.success
    /\ modal.isOpen
    /\ ~modal.conflictCheck.hasConflict
    /\ modal.newStartTime = lastCall.args[4]
    /\ EditsOf(modal.planDate, KeyOf(modal.session)) = {}
====
